---- MODULE Spec2Model ----
(***************************************************************************)
(* Model of the real-time graph-client engine of src/pipewire-jack.c.      *)
(*                                                                         *)
(* The module holds one group of variables per subsystem and one           *)
(* specification per subsystem:                                            *)
(*   SpecElection, SpecCalls                                               *)
(*                 timebase-master election on the driver's segment_owner  *)
(*                 slot (jack_set_timebase_callback, jack_release_timebase)*)
(*   SpecMidi      the MIDI port buffer of the jack_midi calls, byte by byte *)
(*   SpecMerge     convert_to_midi / convert_from_midi over wire sequences *)
(*   SpecPool      the port, object and mix arenas (alloc_port, free_port, *)
(*                 ensure_mix, jack_port_register, jack_port_unregister)   *)
(*   SpecCycle     the cycle of the data loop under the events of the      *)
(*                 server (cycle_run, cycle_signal, on_rtsocket_condition) *)
(*   SpecLife      the same under the calls of the application and the     *)
(*                 state changes of the remote (jack_activate,             *)
(*                 jack_deactivate, jack_client_close, on_state_changed)   *)
(*   SpecPosition  one jack_position_t written by position_to_jack, write  *)
(*                 by write, and a reader of it                            *)
(*   SpecAudio     one audio input port and jack_port_get_buffer           *)
(*   SpecMixReuse  the pools from two connected ports on                   *)
(*   SpecSignal    signal_sync of the clients that share downstream nodes  *)
(*   SpecBuffers   the buffers of one mix and their reuse queue            *)
(*   SpecRegistry  the objects of the registry and the map of their ids    *)
(*   SpecLock      the thread-loop lock and the two threads around it      *)
(*   SpecSync      do_sync and the replies and state changes of the remote *)
(*   SpecReposition  the reposition requests of the clients of a driver    *)
(*   SpecOwnPorts  the ports of the client and their announcements         *)
(* A specification steps the variables of its subsystem and leaves the     *)
(* others at their initial value.                                          *)
(***************************************************************************)
EXTENDS Integers, Sequences, FiniteSets, TLC

(***************************************************************************)
(* Bounds of the model.                                                    *)
(***************************************************************************)
\* number of client processes sharing one driver activation record
NumClients == 2
\* mb->buffer_size of a MIDI port buffer, in bytes (the source: 32768)
MidiBufferSize == 48
\* mb->nframes, the period of a MIDI port buffer (the source: 8192)
MidiFrames == 3
\* calls an application makes on one MIDI port buffer in one run
MaxCalls == 3
\* connections (mixes) of one MIDI input port
NumSeq == 2
\* controls in the sequences of all connections of a port together
MaxEvents == 4
\* MAX_PORTS, the port slots of one direction (the source: 1024)
MaxPorts == 2
\* MAX_MIX, the slots of the mix pool (the source: 4096)
MaxMix == 2
\* OBJECT_CHUNK, the objects one calloc adds (the source: 8)
ObjectChunk == 2
\* the mix ids the server uses for the connections of one port
NumMixIds == 2
\* calls and server events on the pools of one client in one run
MaxPoolCalls == 5
\* node ids the server gives to the client and its peers
NumNodes == 2
\* events and wakes on the running cycle engine in one run
MaxCycleCalls == 3
\* calls, events and wakes on the engine of a client in one run
MaxLifeCalls == 4
\* position_to_jack calls and clears of one jack_position_t in one run
MaxPosCalls == 3
\* MAX_BUFFER_FRAMES, the samples of one buffer (the source: 8192)
AudioFrames == 2
\* connections (mixes) of one audio input port
MaxSources == 3
\* calls and events on one audio input port in one run
MaxAudioCalls == 4
\* reads of the jack_position_t by the reader
MaxReads == 2
\* clients that signal downstream nodes at the end of their cycle
NumUpstream == 2
\* the downstream nodes: the activation records the links point to
NumDownstream == 2
\* links in the array of one client
MaxLinks == 2
\* the largest pending counter of a downstream node at the start of a period
MaxPending == 3
\* calls and events on the buffers of one mix in one run
MaxBufferCalls == 5
\* the ids of the globals the registry announces: 0 .. MaxGlobalId
MaxGlobalId == 2
\* registry events in one run
MaxRegistryCalls == 4
\* public calls and dispatched handlers in one run of the two threads
MaxLockCalls == 4
\* calls of do_sync in one run
MaxSyncCalls == 3
\* calls of jack_transport_reposition and jack_transport_locate in one run
MaxRepositionCalls == 4

(***************************************************************************)
(* Constants of the program.                                               *)
(***************************************************************************)
MIDI_INLINE_MAX == 4
\* sizeof(struct midi_buffer): six 32-bit fields
SizeofMidiBuffer == 24
\* sizeof(struct midi_event): two 16-bit fields and a 4-byte union
SizeofMidiEvent == 8
\* sizeof(struct spa_pod_sequence): the pod header and the sequence body
\* written by spa_pod_builder_push_sequence
SizeofPodSequence == 16
\* sizeof(struct spa_pod_control): offset, type and the header of the value
\* pod, written by spa_pod_builder_control and spa_pod_builder_bytes
SizeofPodControl == 16
\* the alignment spa_pod_builder_bytes pads the payload to
PodAlign == 8

VARIABLES
  \* ---- timebase election (shared driver activation + per client) ----
  segment_owner,       \* a->segment_owner[0] of the driver activation; 0 = unowned
  driver_activation,   \* [client -> BOOLEAN]: c->driver_activation != NULL
  timebase_callback,   \* [client -> BOOLEAN]: c->timebase_callback != NULL
  pending_new_pos,     \* [client -> BOOLEAN]: c->activation->pending_new_pos
  tb_pc,               \* [client -> position inside jack_set_timebase_callback]
  tb_conditional,      \* [client -> BOOLEAN]: the call's conditional argument (until used)
  observe,             \* which history the run keeps: "race" or "calls"
  race,                \* history: the calls of the current ownership window
  stolen,              \* history: the owner's id was stored over another client's id
  tb_last,             \* history: the last return or unconditional store: the call,
                       \* the client, the slot before and after, the return value
  tb_entry,            \* history: [client -> the slot and the client's hook when its
                       \* last jack_set_timebase_callback was entered]
  \* ---- the MIDI port buffer ----
  port_buffer,         \* struct midi_buffer and the bytes behind it
  midi_calls,          \* calls made on the buffer so far
  midi_reserved,       \* history: successful reservations since the last clear
  midi_last,           \* history: the last call, its arguments and whether it returned an event
  port_mix,            \* the mixes of the port: mix->io set or not, and the sequence in its buffer
  midi_copy,           \* the port buffer decoded from the encoding of port_buffer
  \* ---- the port, mix and object pools of one client ----
  client,              \* struct client: the pools, their lists and the objects
  pool_last,           \* history: the last call on the pools, what it found and returned
  pool_calls,          \* calls and events on the pools so far
  \* ---- the cycle engine of one client ----
  rt,                  \* struct client: the fields of the transport, the cycle and the hooks
  rt_last,             \* history: the last call or event, its result and the hooks it invoked
  rt_calls,            \* calls and events on the engine so far
  rt_quiet,            \* history: jack_deactivate returned 0 and jack_activate was not called since
  rt_in,               \* history: what the last wake read and what its hooks returned
  \* ---- one jack_position_t written by position_to_jack, and a reader of it ----
  jp,                  \* the jack_position_t
  jp_a,                \* the activation record of the call in progress or of the last call
  jp_pc,               \* the writes the call in progress has made: 0 when no call is in progress
  jp_start,            \* history: the jack_position_t when the call began
  jp_stamp,            \* history: the write that last stored usecs to frame, and valid to the bar fields
  jp_call,             \* history: the writes begun so far, position_to_jack calls and clears
  jp_done,             \* history: the record and the output of the calls completed since the last clear
  jp_zeroed,           \* history: the markers were equal when the record was handed over or cleared
  jp_clears,           \* history: the clears of the record by jack_transport_query
  rdr,                 \* a reader of jp: its place, the markers it saw and the writes whose fields it read
  \* ---- one audio input port: its connections and its fallback buffer ----
  au,                  \* struct port: emptyptr, zeroed and the list of its mixes
  au_last,             \* history: the last call on the port, and the buffer jack_port_get_buffer returned
  au_calls,            \* calls and events on the port so far
  \* ---- the end of a period: clients that signal the nodes behind their links ----
  sg_act,              \* [node -> the activation record of the node: state[0] and status]
  sg_up,               \* [client -> its status, its links and its place in signal_sync]
  \* ---- the buffers of one mix and their reuse queue ----
  bq,                  \* struct mix: n_buffers, buffers[] and queue, and the direction of its port
  bq_last,             \* history: the last call on the mix and what it returned
  bq_calls,            \* calls and events on the mix so far
  bq_handed,           \* history: the ids get_buffer_output handed out since the buffers were
                       \* assigned; broken is set by any other call on the queue
  \* ---- the objects of the registry and the map of their ids ----
  rg,                  \* c->context: globals, the objects and their lists
  rg_last,             \* history: the last registry event, whether it was dropped, the hooks it invoked
  rg_calls,            \* registry events so far
  \* ---- the thread-loop lock, the thread of the application and the loop thread ----
  lk,                  \* the owner of the lock, where each thread is, the threads inside a
                       \* mutation of the object lists, the port pool or the mix pool
  lk_calls,            \* public calls and dispatched handlers so far
  \* ---- the rendezvous with the server ----
  sy,                  \* the thread in do_sync, the sequence numbers and the remote
  \* ---- the reposition requests of the clients of one driver ----
  rp,                  \* a->reposition_owner and the state of the driver's position,
                       \* na->reposition of each client, where each client is in the call
  rp_last              \* history: the last return, its client and value

midiVars == <<port_buffer, midi_calls, midi_reserved, midi_last, port_mix, midi_copy>>

tbVars == <<segment_owner, driver_activation, timebase_callback,
            pending_new_pos, tb_pc, tb_conditional, observe, race,
            stolen, tb_last, tb_entry>>

poolVars == <<client, pool_last, pool_calls>>

engineVars == <<rt, rt_last, rt_calls, rt_quiet, rt_in>>

posVars == <<jp, jp_a, jp_pc, jp_start, jp_stamp, jp_call, jp_done, jp_zeroed,
             jp_clears, rdr>>

audioVars == <<au, au_last, au_calls>>

signalVars == <<sg_act, sg_up>>

bufferVars == <<bq, bq_last, bq_calls, bq_handed>>

registryVars == <<rg, rg_last, rg_calls>>

lockVars == <<lk, lk_calls>>

syncVars == <<sy>>

repositionVars == <<rp, rp_last>>

vars == <<tbVars, midiVars, poolVars, engineVars, posVars, audioVars, signalVars,
          bufferVars, registryVars, lockVars, syncVars, repositionVars>>

(***************************************************************************)
(* Timebase election.                                                      *)
(* Every client process has a distinct, non-zero node id; the model uses   *)
(* the id as the client's name.  0 is the unowned value of segment_owner.  *)
(***************************************************************************)
Clients == 1..NumClients

\* ATOMIC_CAS(v, ov, nv): the new value of v and whether the exchange happened
ATOMIC_CAS(v, ov, nv) ==
  IF v = ov THEN [ok |-> TRUE, val |-> nv] ELSE [ok |-> FALSE, val |-> v]

\* history of one ownership window: it opens when the slot becomes unowned
\* (initially and at every successful release) and records the conditional
\* calls that entered while the slot was unowned and how their CAS ended.
\* A write to the slot by a call that is not such an entrant closes it.
NewRace(prevBusy) ==
  [open |-> TRUE, entrants |-> {}, acquired |-> {}, busy |-> {},
   prevBusy |-> prevBusy]

InitTimebase(obs) ==
  /\ observe = obs
  /\ segment_owner = 0
  /\ driver_activation = [c \in Clients |-> FALSE]
  /\ timebase_callback = [c \in Clients |-> FALSE]
  /\ pending_new_pos = [c \in Clients |-> FALSE]
  /\ tb_pc = [c \in Clients |-> "idle"]
  /\ tb_conditional = [c \in Clients |-> FALSE]
  /\ race = NewRace({})
  /\ stolen = FALSE
  /\ tb_last = [op |-> "none", c |-> 0, before |-> 0, after |-> 0, ret |-> "none"]
  /\ tb_entry = [c \in Clients |-> [owner |-> 0, hook |-> FALSE]]

\* update_driver_activation: the driver's activation record becomes known to
\* (link found) or unknown to (link == NULL) client c.  It is taken only
\* between the client's calls: a call keeps the pointer it read on entry.
update_driver_activation(c, found) ==
  /\ tb_pc[c] = "idle"
  /\ driver_activation[c] # found
  /\ driver_activation' = [driver_activation EXCEPT ![c] = found]
  /\ UNCHANGED <<segment_owner, timebase_callback, pending_new_pos,
                 tb_pc, tb_conditional, observe, race, stolen, tb_last>>

\* the record of a return (or of the unconditional store) of client c
Last(op, c, ret) ==
  IF observe = "calls"
    THEN [op |-> op, c |-> c, before |-> segment_owner, after |-> segment_owner',
          ret |-> ret]
    ELSE tb_last

\* the slot and the hook of c as jack_set_timebase_callback finds them,
\* kept by the runs that observe the calls
AtEntry(c) ==
  IF observe = "calls"
    THEN [tb_entry EXCEPT ![c] = [owner |-> segment_owner,
                                  hook |-> timebase_callback[c]]]
    ELSE tb_entry

\* the next value of the race history, kept only by the runs that observe it
KeepRace(r) == IF observe = "race" THEN r ELSE race

\* jack_set_timebase_callback, entry: a == NULL -> -EIO; the ATOMIC_LOAD of
\* the owner; owner == c->node_id -> 0 ("was ok")
stb_enter(c, conditional) ==
  /\ tb_pc[c] = "idle"
  /\ UNCHANGED <<segment_owner, driver_activation, timebase_callback,
                 pending_new_pos, observe, stolen>>
  /\ IF ~driver_activation[c]
       THEN /\ tb_last' = Last("set", c, "-EIO")
            /\ UNCHANGED <<tb_pc, tb_conditional, race>>
       ELSE IF segment_owner = c
         THEN /\ tb_last' = Last("set", c, "0")
              /\ UNCHANGED <<tb_pc, tb_conditional, race>>
         ELSE /\ tb_pc' = [tb_pc EXCEPT ![c] = "try"]
              /\ tb_conditional' = [tb_conditional EXCEPT ![c] = conditional]
              /\ race' = KeepRace(IF race.open /\ conditional /\ segment_owner = 0
                                    THEN [race EXCEPT !.entrants = @ \cup {c}]
                                    ELSE race)
              /\ UNCHANGED tb_last

\* a conditional path that takes the slot without comparing it with 0
stb_cas_blind(c) == [ok |-> TRUE, val |-> c]

\* the value the conditional path leaves in the slot: ATOMIC_CAS(owner, 0, id)
stb_cas(c) == ATOMIC_CAS(segment_owner, 0, c)

\* the value the unconditional path leaves in the slot: ATOMIC_STORE(owner, id)
stb_store(c) == c

\* jack_set_timebase_callback, "try to become master": the conditional
\* ATOMIC_CAS(0 -> node_id), -EBUSY when it fails, or the ATOMIC_STORE
stb_try(c) ==
  /\ tb_pc[c] = "try"
  /\ UNCHANGED <<driver_activation, timebase_callback, pending_new_pos, observe>>
  /\ IF tb_conditional[c]
       THEN LET r == stb_cas(c) IN
            /\ segment_owner' = r.val
            /\ IF r.ok
                 THEN /\ tb_pc' = [tb_pc EXCEPT ![c] = "set"]
                      /\ tb_conditional' = [tb_conditional EXCEPT ![c] = FALSE]
                      /\ UNCHANGED tb_last
                      /\ race' = KeepRace(IF race.open /\ c \in race.entrants
                                            THEN [race EXCEPT !.acquired = @ \cup {c}]
                                            ELSE [race EXCEPT !.open = FALSE])
                      /\ stolen' = FALSE
                 ELSE /\ tb_pc' = [tb_pc EXCEPT ![c] = "idle"]
                      /\ tb_conditional' = [tb_conditional EXCEPT ![c] = FALSE]
                      /\ tb_last' = Last("set", c, "-EBUSY")
                      /\ race' = KeepRace(IF race.open /\ c \in race.entrants
                                            THEN [race EXCEPT !.busy = @ \cup {c}]
                                            ELSE race)
                      /\ UNCHANGED stolen
       ELSE /\ segment_owner' = stb_store(c)
            /\ tb_pc' = [tb_pc EXCEPT ![c] = "set"]
            /\ tb_last' = Last("store", c, "none")
            /\ race' = KeepRace([race EXCEPT !.open = FALSE])
            /\ stolen' = (observe = "calls" /\ segment_owner # 0)
            /\ UNCHANGED tb_conditional

\* jack_set_timebase_callback: c->timebase_callback = timebase_callback,
\* then do_activate starts the rendezvous
stb_set(c) ==
  /\ tb_pc[c] = "set"
  /\ timebase_callback' = [timebase_callback EXCEPT ![c] = TRUE]
  /\ tb_pc' = [tb_pc EXCEPT ![c] = "sync"]
  /\ UNCHANGED <<segment_owner, driver_activation, pending_new_pos,
                 tb_conditional, observe, race, stolen, tb_last>>

\* do_sync: -1 when the connection fell into the error state while waiting,
\* 0 when the reply for the awaited sequence number arrived
do_sync_results == {"0", "-1"}

\* jack_set_timebase_callback: do_activate returns res; res < 0 -> return res,
\* else pending_new_pos = true and return 0
stb_sync(c, res) ==
  /\ tb_pc[c] = "sync"
  /\ tb_pc' = [tb_pc EXCEPT ![c] = "idle"]
  /\ pending_new_pos' = IF res = "0"
                          THEN [pending_new_pos EXCEPT ![c] = TRUE]
                          ELSE pending_new_pos
  /\ UNCHANGED <<segment_owner, driver_activation, timebase_callback,
                 tb_conditional, observe, race, stolen>>
  /\ tb_last' = Last("set", c, res)

\* a release that resets the slot without comparing it with the caller's id
release_cas_blind(c) == [ok |-> TRUE, val |-> 0]

\* the value jack_release_timebase leaves in the slot: ATOMIC_CAS(owner, id, 0)
release_cas(c) == ATOMIC_CAS(segment_owner, c, 0)

\* jack_release_timebase: a == NULL -> -EIO; the CAS of the caller's own id
\* back to 0 fails -> -EINVAL; else the hook and pending_new_pos are cleared
jack_release_timebase(c) ==
  /\ tb_pc[c] = "idle"
  /\ UNCHANGED <<driver_activation, tb_pc, tb_conditional, observe>>
  /\ IF ~driver_activation[c]
       THEN /\ UNCHANGED <<segment_owner, timebase_callback, pending_new_pos,
                           race, stolen>>
            /\ tb_last' = Last("release", c, "-EIO")
       ELSE LET r == release_cas(c) IN
            /\ segment_owner' = r.val
            /\ IF r.ok
                 THEN /\ timebase_callback' = [timebase_callback EXCEPT ![c] = FALSE]
                      /\ pending_new_pos' = [pending_new_pos EXCEPT ![c] = FALSE]
                      /\ race' = KeepRace(NewRace(IF race.open THEN race.busy ELSE {}))
                      /\ stolen' = FALSE
                      /\ tb_last' = Last("release", c, "0")
                 ELSE /\ UNCHANGED <<timebase_callback, pending_new_pos, race, stolen>>
                      /\ tb_last' = Last("release", c, "-EINVAL")

(***************************************************************************)
(* The MIDI port buffer: struct midi_buffer followed by the array of       *)
(* struct midi_event headers growing up and the payload heap growing down  *)
(* from the end.  The bytes behind the struct are modelled one by one:     *)
(* mem[off] is the byte at offset off from the start of the buffer.        *)
(***************************************************************************)
MemOffsets == SizeofMidiBuffer .. MidiBufferSize - 1

\* the k-th byte of the little-endian representation of n
ByteOf(n, k) == (n \div (256 ^ k)) % 256

\* memcpy(mem + off, data, Len(data))
PutBytes(mem, off, data) ==
  [o \in DOMAIN mem |->
     IF o >= off /\ o < off + Len(data) THEN data[o - off + 1] ELSE mem[o]]

\* the little-endian bytes of an n-byte unsigned integer
LE(v, n) == [k \in 1..n |-> ByteOf(v, k - 1)]

\* an n-byte little-endian unsigned integer read at off
GetLE(mem, off, n) ==
  LET RECURSIVE Sum(_)
      Sum(k) == IF k = n THEN 0 ELSE mem[off + k] * (256 ^ k) + Sum(k + 1)
  IN Sum(0)

\* &events[i]: SPA_MEMBER(mb, sizeof(*mb), struct midi_event) + i
EventOffset(i) == SizeofMidiBuffer + i * SizeofMidiEvent

\* init_buffer for a MIDI port: the fields of struct midi_buffer; the bytes
\* behind it are those of the calloc'ed struct client
init_buffer ==
  [buffer_size |-> MidiBufferSize, nframes |-> MidiFrames, write_pos |-> 0,
   event_count |-> 0, lost_events |-> 0, mem |-> [o \in MemOffsets |-> 0]]

\* jack_midi_clear_buffer
jack_midi_clear_buffer(mb) ==
  [mb EXCEPT !.event_count = 0, !.write_pos = 0, !.lost_events = 0]

\* used_size of jack_midi_max_event_size: the struct, the heap and the
\* headers of the stored events and of the next one
used_size(mb) ==
  SizeofMidiBuffer + mb.write_pos + (mb.event_count + 1) * SizeofMidiEvent

\* the size reported when the header of the next event is left out of used_size
max_event_size_no_header(mb) ==
  IF used_size(mb) - SizeofMidiEvent > mb.buffer_size THEN 0
  ELSE IF mb.buffer_size - (used_size(mb) - SizeofMidiEvent) < MIDI_INLINE_MAX
    THEN MIDI_INLINE_MAX
  ELSE mb.buffer_size - (used_size(mb) - SizeofMidiEvent)

\* jack_midi_max_event_size
jack_midi_max_event_size(mb) ==
  IF used_size(mb) > mb.buffer_size THEN 0
  ELSE IF mb.buffer_size - used_size(mb) < MIDI_INLINE_MAX THEN MIDI_INLINE_MAX
  ELSE mb.buffer_size - used_size(mb)

\* events[i].time and events[i].size, both uint16_t
EventTime(mb, i) == GetLE(mb.mem, EventOffset(i), 2)
EventSize(mb, i) == GetLE(mb.mem, EventOffset(i) + 2, 2)

\* a reserve that does not compare the time with the last stored event
time_unchecked(mb, time) == FALSE

\* the check of jack_midi_event_reserve on the time of the last stored event
time_before_last(mb, time) ==
  mb.event_count > 0 /\ time < EventTime(mb, mb.event_count - 1)

\* a reserve that accepts an event without payload
reserve_fails_sized_only(mb, time, data_size) ==
  \/ time >= mb.nframes
  \/ time_before_last(mb, time)
  \/ jack_midi_max_event_size(mb) < data_size

\* the conditions under which jack_midi_event_reserve goes to failed
reserve_fails(mb, time, data_size) ==
  \/ time >= mb.nframes
  \/ time_before_last(mb, time)
  \/ data_size <= 0
  \/ jack_midi_max_event_size(mb) < data_size

NULLPTR == 0 - 1

\* jack_midi_event_reserve: the buffer after the call and the offset of the
\* returned pointer (NULLPTR when it returns NULL)
jack_midi_event_reserve(mb, time, data_size) ==
  IF reserve_fails(mb, time, data_size)
    THEN [mb |-> [mb EXCEPT !.lost_events = @ + 1], res |-> NULLPTR]
    ELSE
      LET ev == EventOffset(mb.event_count)
          hdr == PutBytes(PutBytes(mb.mem, ev, LE(time % 65536, 2)),
                          ev + 2, LE(data_size % 65536, 2))
      IN IF data_size <= MIDI_INLINE_MAX
           THEN [mb |-> [mb EXCEPT !.mem = hdr, !.event_count = @ + 1],
                 res |-> ev + 4]
           ELSE
             LET wp == mb.write_pos + data_size
                 byte_offset == mb.buffer_size - 1 - wp
             IN [mb |-> [mb EXCEPT !.mem = PutBytes(hdr, ev + 4, LE(byte_offset, 4)),
                                   !.write_pos = wp,
                                   !.event_count = @ + 1],
                 res |-> byte_offset]

\* jack_midi_event_write: reserve, then memcpy(retbuf, data, data_size);
\* ret is 0 or ENOBUFS
jack_midi_event_write(mb, time, data) ==
  LET r == jack_midi_event_reserve(mb, time, Len(data))
  IN IF r.res # NULLPTR
       THEN [mb |-> [r.mb EXCEPT !.mem = PutBytes(@, r.res, data)], ret |-> "0"]
       ELSE [mb |-> r.mb, ret |-> "ENOBUFS"]

\* midi_event_data: the offset of the payload of events[i]
midi_event_data(mb, i) ==
  IF EventSize(mb, i) <= MIDI_INLINE_MAX
    THEN EventOffset(i) + 4
    ELSE GetLE(mb.mem, EventOffset(i) + 4, 4)

\* jack_midi_event_get: time, size and the offset of the payload
jack_midi_event_get(mb, i) ==
  [time |-> EventTime(mb, i), size |-> EventSize(mb, i),
   buffer |-> midi_event_data(mb, i)]

\* jack_midi_get_event_count
jack_midi_get_event_count(mb) == mb.event_count

\* the payload of an event lies inside the bytes behind the struct
EventInBounds(ev) ==
  ev.buffer >= SizeofMidiBuffer /\ ev.buffer + ev.size <= MidiBufferSize

\* the bytes ev.buffer[0 .. ev.size-1] of an event whose payload is in bounds
EventBytes(mb, ev) == [k \in 1..ev.size |-> mb.mem[ev.buffer + k - 1]]

\* the time and size of the stored events, in index order
StoredEvents(mb) ==
  [i \in 1..mb.event_count |->
     [time |-> EventTime(mb, i - 1), size |-> EventSize(mb, i - 1)]]

\* no round trip made on the current content of port_buffer
NoCopy == [made |-> FALSE]

InitPortBuffer ==
  /\ port_buffer = init_buffer
  /\ midi_calls = 0
  /\ midi_reserved = 0
  /\ midi_last = [op |-> "none"]
  /\ midi_copy = NoCopy

\* a port without connections
InitMidi ==
  /\ InitPortBuffer
  /\ port_mix = <<>>

\* what the last call was given and whether it returned an event
MidiCall(op, time, data_size, ok) ==
  [op |-> op, time |-> time, size |-> data_size, ok |-> ok]

\* the application clears the port buffer
MidiClear ==
  /\ midi_calls < MaxCalls
  /\ port_buffer' = jack_midi_clear_buffer(port_buffer)
  /\ midi_calls' = midi_calls + 1
  /\ midi_reserved' = 0
  /\ midi_last' = [op |-> "clear"]
  /\ midi_copy' = NoCopy
  /\ UNCHANGED port_mix

\* the payload sizes an application passes: none, one byte, the largest
\* inline size, the smallest heap size, the sizes around the free space and
\* around the size jack_midi_max_event_size reports, and the size that
\* leaves one byte behind the header of the event after
CallSizes(mb) ==
  {0, 1, MIDI_INLINE_MAX, MIDI_INLINE_MAX + 1} \cup
  {n \in {jack_midi_max_event_size(mb),
          jack_midi_max_event_size(mb) + 1,
          mb.buffer_size - used_size(mb), mb.buffer_size - used_size(mb) + 1,
          mb.buffer_size - used_size(mb) - SizeofMidiEvent - 1} : n >= 0}

\* the bytes an application passes
PayloadBytes == {1}

\* the application reserves an event and leaves the payload as it is
MidiReserve(time, data_size) ==
  LET r == jack_midi_event_reserve(port_buffer, time, data_size) IN
  /\ midi_calls < MaxCalls
  /\ port_buffer' = r.mb
  /\ midi_calls' = midi_calls + 1
  /\ midi_reserved' = IF r.res # NULLPTR THEN midi_reserved + 1 ELSE midi_reserved
  /\ midi_last' = MidiCall("reserve", time, data_size, r.res # NULLPTR)
  /\ midi_copy' = NoCopy
  /\ UNCHANGED port_mix

\* the application writes an event of data_size bytes b
MidiWrite(time, data_size, b) ==
  LET r == jack_midi_event_write(port_buffer, time, [k \in 1..data_size |-> b]) IN
  /\ midi_calls < MaxCalls
  /\ port_buffer' = r.mb
  /\ midi_calls' = midi_calls + 1
  /\ midi_reserved' = IF r.ret = "0" THEN midi_reserved + 1 ELSE midi_reserved
  /\ midi_last' = MidiCall("write", time, data_size, r.ret = "0")
  /\ midi_copy' = NoCopy
  /\ UNCHANGED port_mix

(***************************************************************************)
(* The wire format: a sequence pod of controls.  A control is its offset   *)
(* in the period, its type and the bytes of its value.                     *)
(***************************************************************************)
SPA_CONTROL_Properties == "SPA_CONTROL_Properties"
SPA_CONTROL_Midi == "SPA_CONTROL_Midi"

\* c[i] of convert_to_midi is inside the body of seq[i]
spa_pod_control_is_inside(seq, c, i) == c[i] <= Len(seq[i])

\* a scan that lets the later sequence win equal offsets
pick_next_last(seq, c, i, next) ==
  LET RECURSIVE scan(_, _)
      scan(k, nx) ==
        IF k > Len(seq) THEN nx
        ELSE IF ~spa_pod_control_is_inside(seq, c, k) THEN scan(k + 1, nx)
        ELSE IF nx = 0 \/ seq[k][c[k]].offset <= seq[nx][c[nx]].offset
          THEN scan(k + 1, k)
        ELSE scan(k + 1, nx)
  IN scan(i, next)

\* the for loop of convert_to_midi from index i on: next_index, or 0 while
\* next is NULL
pick_next(seq, c, i, next) ==
  LET RECURSIVE scan(_, _)
      scan(k, nx) ==
        IF k > Len(seq) THEN nx
        ELSE IF ~spa_pod_control_is_inside(seq, c, k) THEN scan(k + 1, nx)
        ELSE IF nx = 0 \/ seq[k][c[k]].offset < seq[nx][c[nx]].offset
          THEN scan(k + 1, k)
        ELSE scan(k + 1, nx)
  IN scan(i, next)

\* the body of the while loop for the control next: only MIDI controls are
\* written, and the result of the write is not looked at
write_control(mb, next) ==
  IF next.type = SPA_CONTROL_Midi
    THEN jack_midi_event_write(mb, next.offset, next.value).mb
    ELSE mb

\* a decoder that writes the sequences one after the other
convert_in_turn(seq, midi) ==
  LET RECURSIVE turn(_, _, _)
      turn(i, k, mb) ==
        IF i > Len(seq) THEN mb
        ELSE IF k > Len(seq[i]) THEN turn(i + 1, 1, mb)
        ELSE turn(i, k + 1, write_control(mb, seq[i][k]))
  IN turn(1, 1, midi)

\* convert_to_midi: seq is the array of sequences, midi the port buffer
convert_to_midi(seq, midi) ==
  LET RECURSIVE loop(_, _)
      loop(c, mb) ==
        LET next_index == pick_next(seq, c, 1, 0) IN
        IF next_index = 0 THEN mb
        ELSE loop([c EXCEPT ![next_index] = @ + 1],
                  write_control(mb, seq[next_index][c[next_index]]))
  IN loop([i \in 1..Len(seq) |-> 1], midi)

\* the sequences get_buffer_input_midi collects: those of the mixes with io
\* set, in the order of the mix list
collect_sequences(mixes) ==
  LET RECURSIVE collect(_)
      collect(k) ==
        IF k > Len(mixes) THEN <<>>
        ELSE IF mixes[k].io THEN <<mixes[k].controls>> \o collect(k + 1)
        ELSE collect(k + 1)
  IN collect(1)

\* get_buffer_input_midi: clear the port buffer and merge the sequences of
\* the mixes into it
get_buffer_input_midi ==
  /\ midi_last.op = "none"
  /\ port_buffer' = convert_to_midi(collect_sequences(port_mix),
                                    jack_midi_clear_buffer(port_buffer))
  /\ midi_last' = [op |-> "merge"]
  /\ midi_calls' = midi_calls + 1
  /\ UNCHANGED <<midi_reserved, port_mix, midi_copy>>

\* the payload of the k-th control of mix i: one byte naming the control
ControlValue(i, k) == <<16 * i + k>>

\* the sequences a peer can leave in the buffer of mix i: n controls ordered
\* by offset inside the period
MixSequences(i, n) ==
  {[k \in 1..n |-> [offset |-> o[k], type |-> t[k], value |-> ControlValue(i, k)]] :
     o \in {f \in [1..n -> 0..MidiFrames - 1] : \A k \in 1..n - 1 : f[k] <= f[k + 1]},
     t \in [1..n -> {SPA_CONTROL_Midi, SPA_CONTROL_Properties}]}

\* the mix lists of a port: the mixes i..NumSeq with at most budget
\* controls in all
MixListsFrom(first, total) ==
  LET RECURSIVE lists(_, _)
      lists(i, budget) ==
        IF i > NumSeq THEN {<<>>}
        ELSE UNION {
               {<<[io |-> io, controls |-> cs]>> \o rest :
                  io \in BOOLEAN, cs \in MixSequences(i, n),
                  rest \in lists(i + 1, budget - n)} :
               n \in 0..budget}
  IN lists(first, total)

NextMerge ==
  /\ UNCHANGED <<tbVars, poolVars, engineVars, posVars, audioVars, signalVars, bufferVars, registryVars, lockVars, syncVars, repositionVars>>
  /\ get_buffer_input_midi

(***************************************************************************)
(* Encoding a port buffer into a sequence pod.                             *)
(***************************************************************************)
\* the size of the buffer convert_from_midi is told to build in: the same
\* MAX_BUFFER_FRAMES * sizeof(float) the port buffer is made with
WireSize == MidiBufferSize

\* the bytes a read outside the port buffer can return
GarbageBytes == {0, 255}

\* the bytes spa_pod_builder_bytes writes for a payload of n bytes
PodPadded(n) == ((n + PodAlign - 1) \div PodAlign) * PodAlign

\* the offset of the builder after the first n controls of seq
PodSize(seq, n) ==
  LET RECURSIVE sum(_)
      sum(k) == IF k = 0 THEN SizeofPodSequence
                ELSE SizeofPodControl + PodPadded(Len(seq[k].value)) + sum(k - 1)
  IN sum(n)

\* the controls the loop of convert_from_midi hands to the builder: one per
\* event, its bytes read at the pointer jack_midi_event_get returns; a
\* pointer outside the buffer reads whatever is there
event_controls(midi) ==
  LET RECURSIVE enc(_)
      enc(i) ==
        IF i = jack_midi_get_event_count(midi) THEN {<<>>}
        ELSE LET ev == jack_midi_event_get(midi, i)
                 values == IF EventInBounds(ev) THEN {EventBytes(midi, ev)}
                           ELSE {[k \in 1..ev.size |-> g] : g \in GarbageBytes}
             IN {<<[offset |-> ev.time, type |-> SPA_CONTROL_Midi, value |-> v]>> \o rest :
                   v \in values, rest \in enc(i + 1)}
  IN enc(0)

\* some event of midi has its payload pointer outside the buffer
reads_outside(midi) ==
  \E i \in 0..jack_midi_get_event_count(midi) - 1 :
    ~EventInBounds(jack_midi_event_get(midi, i))

\* what the builder leaves in a buffer of size bytes: the whole sequence
\* when it fits; when it does not, the sequence the reader finds is the
\* empty one of push_sequence or the controls that were written whole
built_sequences(seq, size) ==
  IF PodSize(seq, Len(seq)) <= size THEN {seq}
  ELSE {<<>>} \cup
       {SubSeq(seq, 1, n) : n \in {m \in 0..Len(seq) :
                                     /\ PodSize(seq, m) <= size
                                     /\ PodSize(seq, m + 1) > size}}

\* convert_from_midi: the sequences the reader of buffer can find, or a
\* fault of the read outside the port buffer
convert_from_midi(midi, size) ==
  {[fault |-> FALSE, seq |-> w] :
     w \in UNION {built_sequences(seq, size) : seq \in event_controls(midi)}}
  \cup (IF reads_outside(midi) THEN {[fault |-> TRUE, seq |-> <<>>]} ELSE {})

\* the port buffer is encoded as process_tee does and the sequence decoded
\* into a freshly cleared port buffer as get_buffer_input_midi does
RoundTrip ==
  /\ ~midi_copy.made
  /\ \E w \in convert_from_midi(port_buffer, WireSize) :
       midi_copy' =
         IF w.fault THEN [made |-> TRUE, fault |-> TRUE]
         ELSE [made |-> TRUE, fault |-> FALSE,
               mb |-> convert_to_midi(<<w.seq>>, jack_midi_clear_buffer(init_buffer))]
  /\ UNCHANGED <<port_buffer, midi_calls, midi_reserved, midi_last, port_mix>>

NextRoundTrip ==
  /\ UNCHANGED <<tbVars, poolVars, engineVars, posVars, audioVars, signalVars, bufferVars, registryVars, lockVars, syncVars, repositionVars>>
  /\ RoundTrip

NextMidi ==
  /\ UNCHANGED <<tbVars, poolVars, engineVars, posVars, audioVars, signalVars, bufferVars, registryVars, lockVars, syncVars, repositionVars>>
  /\ \/ MidiClear
     \/ \E time \in 0..MidiFrames : \E data_size \in CallSizes(port_buffer) :
          MidiReserve(time, data_size)
     \/ \E time \in 0..MidiFrames : \E data_size \in CallSizes(port_buffer) :
        \E b \in PayloadBytes :
          MidiWrite(time, data_size, b)

(***************************************************************************)
(* The pools of struct client: the port slots of each direction with their *)
(* free and in-use lists, the objects and their lists, and the mix slots.  *)
(* The lists of ports and objects are kept as sequences, head first.  The  *)
(* two lists a mix is linked in (mix->link in c->free_mix, mix->port_link  *)
(* in port->mix) are kept as the next and prev pointers of their nodes,    *)
(* because free_mix removes mix->link from a list it is no longer in.      *)
(***************************************************************************)
SPA_DIRECTION_INPUT == "SPA_DIRECTION_INPUT"
SPA_DIRECTION_OUTPUT == "SPA_DIRECTION_OUTPUT"
Directions == {SPA_DIRECTION_INPUT, SPA_DIRECTION_OUTPUT}
JackPortIsInput == "JackPortIsInput"
JackPortIsOutput == "JackPortIsOutput"
PW_TYPE_INTERFACE_Port == "PW_TYPE_INTERFACE_Port"
SPA_IO_Buffers == "SPA_IO_Buffers"
SPA_ID_INVALID == 0 - 1

PortIds == 0..MaxPorts - 1
MixSlots == 1..MaxMix
MixIds == 0..NumMixIds - 1

\* GET_DIRECTION(f)
GET_DIRECTION(f) ==
  IF f = JackPortIsInput THEN SPA_DIRECTION_INPUT ELSE SPA_DIRECTION_OUTPUT

\* the nodes of the lists of mixes: mix slot m stands for &mix_pool[m].link
\* and &mix_pool[m].port_link, FreeMixHead for &c->free_mix, PortMixHead for
\* &port_pool[d][i].mix; NULLPTR is the null pointer of calloc
FreeMixHead == 0
PortMixHead(d, i) ==
  0 - 2 - ((IF d = SPA_DIRECTION_INPUT THEN 0 ELSE MaxPorts) + i)
PortMixHeads == {PortMixHead(d, i) : d \in Directions, i \in PortIds}
LinkNodes == {FreeMixHead} \cup MixSlots
PortLinkNodes == MixSlots \cup PortMixHeads

\* spa_list_init(list)
spa_list_init(L, list) == [L EXCEPT ![list] = [next |-> list, prev |-> list]]

\* spa_list_remove(elem): elem->prev->next = elem->next;
\* elem->next->prev = elem->prev; the pointers of elem stay as they are
spa_list_remove(L, elem) ==
  LET L1 == [L EXCEPT ![L[elem].prev].next = L[elem].next]
  IN [L1 EXCEPT ![L1[elem].next].prev = L1[elem].prev]

\* spa_list_insert(list, elem): elem goes behind list
spa_list_insert(L, list, elem) ==
  LET L1 == [L EXCEPT ![elem] = [prev |-> list, next |-> L[list].next]]
      L2 == [L1 EXCEPT ![list].next = elem]
  IN [L2 EXCEPT ![L2[elem].next].prev = elem]

\* spa_list_append(list, item)
spa_list_append(L, list, item) == spa_list_insert(L, L[list].prev, item)

spa_list_is_empty(L, list) == L[list].next = list
spa_list_first(L, list) == L[list].next

\* a sequence without x: spa_list_remove of an element of that list
Without(q, x) == SelectSeq(q, LAMBDA y : y # x)

\* calloc(OBJECT_CHUNK, sizeof(struct object))
ZeroObject == [type |-> "0", id |-> 0, port_id |-> 0, flags |-> "0"]

\* the client after jack_client_open: calloc, the empty object lists, every
\* mix on c->free_mix and every port slot on the free list of its direction
init_port_pool ==
  [port_pool |-> [d \in Directions |-> [i \in PortIds |-> [valid |-> FALSE, object |-> 0]]],
   free_ports |-> [d \in Directions |-> [k \in 1..MaxPorts |-> k - 1]],
   ports |-> [d \in Directions |-> <<>>],
   objects |-> <<>>,
   free_objects |-> <<>>,
   context_ports |-> <<>>,
   mix_pool |-> [m \in MixSlots |-> [id |-> 0, port |-> NULLPTR, io |-> FALSE, n_buffers |-> 0]],
   link |-> [n \in LinkNodes |->
               [next |-> IF n = MaxMix THEN FreeMixHead ELSE n + 1,
                prev |-> IF n = FreeMixHead THEN MaxMix ELSE n - 1]],
   port_link |-> [n \in PortLinkNodes |-> [next |-> NULLPTR, prev |-> NULLPTR]],
   fault |-> FALSE]

\* alloc_object: a chunk of zeroed objects when the free list is empty, then
\* the first free object
alloc_object(c) ==
  LET grown == IF c.free_objects = <<>>
                 THEN [c EXCEPT !.objects = @ \o [k \in 1..ObjectChunk |-> ZeroObject],
                                !.free_objects = [k \in 1..ObjectChunk |-> Len(c.objects) + k]]
                 ELSE c
      o == Head(grown.free_objects)
  IN [c |-> [grown EXCEPT !.free_objects = Tail(@)], o |-> o]

\* free_object: o leaves the list it is in and goes to the end of the free list
free_object(c, o) ==
  [c EXCEPT !.context_ports = Without(@, o),
            !.free_objects = Append(Without(@, o), o)]

\* the steps a walk along a list of mixes can take before it has met a node twice
WalkLimit == MaxMix + 2 * MaxPorts + 1

\* find_mix: the mix slot with that id on port->mix, 0 for NULL, and
\* NULLPTR when the walk leaves the mixes or never comes back to the head
find_mix(c, head, mix_id) ==
  LET RECURSIVE walk(_, _)
      walk(n, steps) ==
        IF n = head THEN 0
        ELSE IF n \notin MixSlots \/ steps > WalkLimit THEN NULLPTR
        ELSE IF c.mix_pool[n].id = mix_id THEN n
        ELSE walk(c.port_link[n].next, steps + 1)
  IN walk(c.port_link[head].next, 0)

\* ensure_mix for the port slot <<d, i>>: the client after the call and the
\* mix returned (0 for NULL); fault when find_mix walks outside the mixes
ensure_mix(c, d, i, mix_id) ==
  LET head == PortMixHead(d, i)
      found == find_mix(c, head, mix_id)
      mix == spa_list_first(c.link, FreeMixHead)
  IN IF found = NULLPTR THEN [c |-> [c EXCEPT !.fault = TRUE], mix |-> 0]
     ELSE IF found # 0 THEN [c |-> c, mix |-> found]
     ELSE IF spa_list_is_empty(c.link, FreeMixHead) THEN [c |-> c, mix |-> 0]
     ELSE [c |-> [c EXCEPT !.link = spa_list_remove(@, mix),
                           !.port_link = spa_list_append(@, head, mix),
                           !.mix_pool[mix] = [id |-> mix_id, port |-> head,
                                              io |-> FALSE, n_buffers |-> 0]],
           mix |-> mix]

\* free_mix
free_mix(c, mix) ==
  [c EXCEPT !.link = spa_list_append(spa_list_remove(@, mix), FreeMixHead, mix),
            !.port_link = spa_list_remove(@, mix)]

\* the spa_list_for_each_safe loop of free_port over port->mix
free_port_mixes(c, head) ==
  LET RECURSIVE loop(_, _, _, _)
      loop(cc, m, t, steps) ==
        IF m = head THEN cc
        ELSE IF m \notin MixSlots \/ steps > WalkLimit THEN [cc EXCEPT !.fault = TRUE]
        ELSE LET freed == free_mix(cc, m)
             IN loop(freed, t,
                     IF t \in PortLinkNodes THEN freed.port_link[t].next ELSE NULLPTR,
                     steps + 1)
      first == c.port_link[head].next
  IN loop(c, first,
          IF first \in PortLinkNodes THEN c.port_link[first].next ELSE NULLPTR, 0)

\* a free_port that does not look at p->valid
free_port_unchecked(c, d, i) ==
  LET m == free_port_mixes(c, PortMixHead(d, i))
  IN IF m.fault THEN m
     ELSE LET f == free_object([m EXCEPT !.ports[d] = Without(@, i),
                                         !.free_ports[d] = Without(@, i),
                                         !.port_pool[d][i].valid = FALSE],
                               m.port_pool[d][i].object)
          IN [f EXCEPT !.free_ports[d] = Append(@, i)]

\* free_port for the port slot <<d, i>>
free_port(c, d, i) ==
  IF ~c.port_pool[d][i].valid THEN c
  ELSE LET m == free_port_mixes(c, PortMixHead(d, i))
       IN IF m.fault THEN m
          ELSE LET f == free_object([m EXCEPT !.ports[d] = Without(@, i),
                                              !.port_pool[d][i].valid = FALSE],
                                    m.port_pool[d][i].object)
               IN [f EXCEPT !.free_ports[d] = Append(@, i)]

\* an alloc_port that leaves the slot on the free list
alloc_port_keep(c, d) ==
  IF c.free_ports[d] = <<>> THEN [c |-> c, p |-> NULLPTR]
  ELSE LET p == Head(c.free_ports[d])
           a == alloc_object(c)
       IN [c |-> [a.c EXCEPT !.objects[a.o] = [type |-> PW_TYPE_INTERFACE_Port,
                                                id |-> SPA_ID_INVALID,
                                                port_id |-> p, flags |-> @.flags],
                             !.context_ports = Append(@, a.o),
                             !.port_pool[d][p] = [valid |-> TRUE, object |-> a.o],
                             !.port_link = spa_list_init(@, PortMixHead(d, p)),
                             !.ports[d] = Append(@, p)],
           p |-> p]

\* alloc_port: the client after the call and the slot returned (NULLPTR for
\* NULL)
alloc_port(c, d) ==
  IF c.free_ports[d] = <<>> THEN [c |-> c, p |-> NULLPTR]
  ELSE LET p == Head(c.free_ports[d])
           a == alloc_object([c EXCEPT !.free_ports[d] = Tail(@)])
       IN [c |-> [a.c EXCEPT !.objects[a.o] = [type |-> PW_TYPE_INTERFACE_Port,
                                                id |-> SPA_ID_INVALID,
                                                port_id |-> p, flags |-> @.flags],
                             !.context_ports = Append(@, a.o),
                             !.port_pool[d][p] = [valid |-> TRUE, object |-> a.o],
                             !.port_link = spa_list_init(@, PortMixHead(d, p)),
                             !.ports[d] = Append(@, p)],
           p |-> p]

InitPool ==
  /\ client = init_port_pool
  /\ pool_last = [op |-> "none"]
  /\ pool_calls = 0

\* jack_port_register with flags saying direction d and a known port type:
\* alloc_port, the name and flags of the object, the port update and the
\* rendezvous with the server, whose result is res
jack_port_register(flags, res) ==
  LET d == GET_DIRECTION(flags)
      a == alloc_port(client, d)
      o == a.c.port_pool[d][a.p].object
  IN /\ ~client.fault
     /\ IF a.p = NULLPTR
          THEN /\ client' = a.c
               /\ pool_last' = [op |-> "jack_port_register", direction |-> d,
                                free_empty |-> client.free_ports[d] = <<>>,
                                port |-> NULLPTR, was_valid |-> FALSE,
                                reused |-> FALSE, ret |-> 0]
          ELSE /\ client' = [a.c EXCEPT !.objects[o].flags = flags,
                                        !.port_link = spa_list_init(@, PortMixHead(d, a.p))]
               /\ pool_last' = [op |-> "jack_port_register", direction |-> d,
                                free_empty |-> client.free_ports[d] = <<>>,
                                port |-> a.p,
                                was_valid |-> client.port_pool[d][a.p].valid,
                                reused |-> client.port_pool[d][a.p].object # 0,
                                ret |-> IF res = "0" THEN o ELSE 0]

\* jack_port_unregister with the handle o
jack_port_unregister(o, res) ==
  /\ ~client.fault
  /\ o \in DOMAIN client.objects
  /\ LET obj == client.objects[o]
         d == GET_DIRECTION(obj.flags)
     IN IF obj.type # PW_TYPE_INTERFACE_Port \/ obj.port_id = SPA_ID_INVALID
          THEN /\ pool_last' = [op |-> "jack_port_unregister", object |-> o,
                                direction |-> d, port |-> NULLPTR,
                                was_valid |-> FALSE, ret |-> "-EINVAL"]
               /\ UNCHANGED client
          ELSE /\ client' = free_port(client, d, obj.port_id)
               /\ pool_last' = [op |-> "jack_port_unregister", object |-> o,
                                direction |-> d, port |-> obj.port_id,
                                was_valid |-> client.port_pool[d][obj.port_id].valid,
                                ret |-> res]

MAX_BUFFERS == 2

\* client_node_port_use_buffers: a port that is not valid is refused; the
\* mix of the connection is looked up or taken from the pool, its buffers
\* cleared and, unless mapping one fails, the new ones counted
client_node_port_use_buffers(d, port_id, mix_id, n_buffers, mapped) ==
  /\ ~client.fault
  /\ IF ~client.port_pool[d][port_id].valid
       THEN /\ pool_last' = [op |-> "port_use_buffers", direction |-> d,
                             port |-> port_id, mix_id |-> mix_id, mix |-> 0,
                             ret |-> "-EINVAL"]
            /\ UNCHANGED client
       ELSE LET e == ensure_mix(client, d, port_id, mix_id)
            IN /\ client' = IF e.mix = 0 THEN e.c
                            ELSE [e.c EXCEPT !.mix_pool[e.mix].n_buffers =
                                               IF mapped THEN n_buffers ELSE 0]
               /\ pool_last' = [op |-> "port_use_buffers", direction |-> d,
                                port |-> port_id, mix_id |-> mix_id, mix |-> e.mix,
                                ret |-> IF e.mix = 0 THEN "-ENOMEM"
                                        ELSE IF mapped THEN "0" ELSE "-ENODEV"]

\* client_node_port_set_io: the mix of the connection is looked up or taken
\* from the pool, whether the port is valid or not, and for SPA_IO_Buffers
\* its io area set to the mapped memory, or to NULL without memory
client_node_port_set_io(d, port_id, mix_id, id, mem) ==
  /\ ~client.fault
  /\ LET e == ensure_mix(client, d, port_id, mix_id)
     IN /\ client' = IF e.mix # 0 /\ id = SPA_IO_Buffers
                       THEN [e.c EXCEPT !.mix_pool[e.mix].io = mem]
                       ELSE e.c
        /\ pool_last' = [op |-> "port_set_io", direction |-> d,
                         port |-> port_id, mix_id |-> mix_id, mix |-> e.mix,
                         ret |-> IF e.mix = 0 THEN "-ENOMEM" ELSE "0"]

\* the application registers and unregisters ports
NextPorts ==
  \/ \E flags \in {JackPortIsInput, JackPortIsOutput} : \E res \in do_sync_results :
       jack_port_register(flags, res)
  \/ \E o \in 1..(2 * MaxPorts + ObjectChunk) : \E res \in do_sync_results :
       jack_port_unregister(o, res)

\* the server connects the ports
NextMixes ==
  \/ \E d \in Directions : \E port_id \in PortIds : \E mix_id \in MixIds :
     \E n_buffers \in {0, MAX_BUFFERS} : \E mapped \in BOOLEAN :
       client_node_port_use_buffers(d, port_id, mix_id, n_buffers, mapped)
  \/ \E d \in Directions : \E port_id \in PortIds : \E mix_id \in MixIds :
     \E id \in {SPA_IO_Buffers, "SPA_IO_Clock"} : \E mem \in BOOLEAN :
       client_node_port_set_io(d, port_id, mix_id, id, mem)

NextPool ==
  /\ UNCHANGED <<tbVars, midiVars, engineVars, posVars, audioVars, signalVars, bufferVars, registryVars, lockVars, syncVars, repositionVars>>
  /\ pool_calls < MaxPoolCalls
  /\ pool_calls' = pool_calls + 1
  /\ NextPorts

NextPortMix ==
  /\ UNCHANGED <<tbVars, midiVars, engineVars, posVars, audioVars, signalVars, bufferVars, registryVars, lockVars, syncVars, repositionVars>>
  /\ pool_calls < MaxPoolCalls
  /\ pool_calls' = pool_calls + 1
  /\ (NextPorts \/ NextMixes)

(***************************************************************************)
(* The cycle engine of one client: the control-plane events of the server  *)
(* (transport, io areas, activation links, commands, connection state),    *)
(* the calls of the application that register hooks and start and stop     *)
(* the engine, and the wake of the real-time socket.                       *)
(* What lives in memory shared with the server (the clock of the position  *)
(* record, the driver's activation record) is written by other processes   *)
(* at any time: the model keeps whether each record is mapped and draws    *)
(* the values a cycle reads when it reads them.                            *)
(***************************************************************************)
NodeIds == 1..NumNodes
\* (uint32_t)-1, the value of buffer_frames and sample_rate before the
\* first cycle; the values a cycle reads are below it
UINT32_MAX == 0 - 1
\* pos->clock.duration and pos->clock.rate.denom as a cycle may read them
Durations == {256, 512}
Rates == {44100, 48000}

JackTransportStopped == "JackTransportStopped"
JackTransportRolling == "JackTransportRolling"
JackTransportLooping == "JackTransportLooping"
JackTransportStarting == "JackTransportStarting"
TransportStates == {JackTransportStopped, JackTransportRolling,
                    JackTransportLooping, JackTransportStarting}

PW_NODE_ACTIVATION_NOT_TRIGGERED == "NOT_TRIGGERED"
PW_NODE_ACTIVATION_AWAKE == "AWAKE"
PW_NODE_ACTIVATION_FINISHED == "FINISHED"

PW_REMOTE_STATE_ERROR == "ERROR"
PW_REMOTE_STATE_UNCONNECTED == "UNCONNECTED"
PW_REMOTE_STATE_CONNECTED == "CONNECTED"

\* the hooks an application registers before it activates: the fields
\* thread_init_callback, bufsize_callback, srate_callback, xrun_callback and
\* shutdown_callback of struct client
Observers == {"thread_init", "bufsize", "srate", "xrun", "shutdown"}

\* one invocation of a hook, or one step of the cycle, with its argument
Event(ev, arg) == [ev |-> ev, arg |-> arg]

\* struct client after a successful jack_client_open: calloc, node_id,
\* buffer_frames and sample_rate set, an empty links array, the remote
\* connected; cbs are the hooks registered right after
OpenClient(cbs) ==
  [node_id |-> SPA_ID_INVALID,
   activation |-> FALSE,          \* c->activation != NULL
   status |-> PW_NODE_ACTIVATION_NOT_TRIGGERED,
   pending_sync |-> FALSE,
   pending_new_pos |-> FALSE,
   socket_source |-> FALSE,       \* c->socket_source != NULL
   mask_in |-> FALSE,             \* the source polls SPA_IO_IN
   position |-> FALSE,            \* c->position != NULL
   driver_id |-> 0,
   driver_activation |-> NULLPTR, \* the mapping it points to
   links |-> <<>>,
   next_mem |-> 1,                \* the next mapping of an activation record
   started |-> FALSE,
   first |-> FALSE,
   thread_entered |-> FALSE,
   active |-> FALSE,
   loop |-> FALSE,                \* the data loop runs
   error |-> FALSE,
   destroyed |-> FALSE,
   freed |-> FALSE,
   state |-> PW_REMOTE_STATE_CONNECTED,
   callbacks |-> cbs,
   buffer_frames |-> UINT32_MAX,
   sample_rate |-> UINT32_MAX,
   jack_state |-> JackTransportStopped,
   xrun_count |-> 0,
   fault |-> "none"]

\* the mappings of activation records the links hold
MappedActivations(c) ==
  {c.links[k].activation : k \in DOMAIN c.links} \ {NULLPTR}

\* find_activation: the first link of the node, 0 for NULL
find_activation(links, node_id) ==
  IF \E k \in DOMAIN links : links[k].node_id = node_id
    THEN CHOOSE k \in DOMAIN links :
           /\ links[k].node_id = node_id
           /\ \A j \in 1..(k - 1) : links[j].node_id # node_id
    ELSE 0

\* clear_link: the link loses its node and its mapping
clear_link(link) ==
  [link EXCEPT !.node_id = SPA_ID_INVALID, !.activation = NULLPTR]

\* unhandle_socket, do_remove_sources
unhandle_socket(c) ==
  [c EXCEPT !.socket_source = FALSE, !.mask_in = FALSE]

\* clean_transport: nothing without a node id; else the data loop stops,
\* the socket source goes, the links are cleared and the array emptied.
\* driver_activation keeps pointing to the mapping it had.
clean_transport(c) ==
  IF c.node_id = SPA_ID_INVALID
    THEN c
    ELSE [unhandle_socket(c) EXCEPT !.loop = FALSE, !.links = <<>>,
                                    !.node_id = SPA_ID_INVALID]

\* client_node_transport: the old transport is cleaned; map_ok says whether
\* the client's own activation record could be mapped; the socket source is
\* added with SPA_IO_ERR | SPA_IO_HUP only
client_node_transport(c, node_id, map_ok) ==
  LET c1 == [clean_transport(c) EXCEPT !.node_id = node_id]
  IN IF ~map_ok
       THEN c1
       ELSE [c1 EXCEPT !.activation = TRUE, !.socket_source = TRUE,
                       !.mask_in = FALSE]

\* update_driver_activation in the cycle engine's client record
link_activation(c) ==
  LET link == find_activation(c.links, c.driver_id)
  IN [c EXCEPT !.driver_activation =
                 IF link # 0 THEN c.links[link].activation ELSE NULLPTR]

SPA_IO_Position == "SPA_IO_Position"

\* client_node_set_io: mem says whether an area is given (mem_id is not
\* SPA_ID_INVALID), map_ok whether it could be mapped, clock_id is
\* position->clock.id of the area
client_node_set_io(c, id, mem, map_ok, clock_id) ==
  IF mem /\ ~map_ok
    THEN c
    ELSE IF id = SPA_IO_Position
           THEN link_activation(
                  [c EXCEPT !.position = mem,
                            !.driver_id = IF mem THEN clock_id ELSE SPA_ID_INVALID])
           ELSE c

\* client_node_set_activation: the client's own node is skipped; a mapping
\* adds a link at the end of the array, no mapping clears the first link of
\* the node; the driver link is looked up again when the node is the driver
client_node_set_activation(c, node_id, mem, map_ok, pending) ==
  IF c.node_id = node_id THEN c
  ELSE IF mem /\ ~map_ok THEN c
  ELSE IF ~mem /\ find_activation(c.links, node_id) = 0 THEN c
  ELSE LET c1 == IF mem
                   THEN [c EXCEPT !.links = Append(@,
                                    [node_id |-> node_id,
                                     activation |-> c.next_mem,
                                     pending |-> pending]),
                                  !.next_mem = @ + 1]
                   ELSE [c EXCEPT !.links[find_activation(c.links, node_id)] =
                                    clear_link(@)]
       IN IF c1.driver_id = node_id THEN link_activation(c1) ELSE c1

\* the value client_node_set_activation returns: 0 for the client's own
\* node, -EINVAL for a mapping that fails and for a node without a link
set_activation_res(c, node_id, mem, map_ok) ==
  IF c.node_id = node_id THEN "0"
  ELSE IF mem /\ ~map_ok THEN "-EINVAL"
  ELSE IF ~mem /\ find_activation(c.links, node_id) = 0 THEN "-EINVAL"
  ELSE "0"

SPA_NODE_COMMAND_Start == "Start"
SPA_NODE_COMMAND_Pause == "Pause"
SPA_NODE_COMMAND_Suspend == "Suspend"

\* client_node_command: Pause and Suspend take SPA_IO_IN from the source of
\* a started client, Start adds it to the source of a client that is not
\* started and resets first and thread_entered.  pw_loop_update_io on a
\* missing source is a fault.
client_node_command(c, command) ==
  IF command \in {SPA_NODE_COMMAND_Suspend, SPA_NODE_COMMAND_Pause}
    THEN IF c.started
           THEN IF ~c.socket_source
                  THEN [c EXCEPT !.fault = "client_node_command: no socket source"]
                  ELSE [c EXCEPT !.mask_in = FALSE, !.started = FALSE]
           ELSE c
  ELSE IF command = SPA_NODE_COMMAND_Start
    THEN IF ~c.started
           THEN IF ~c.socket_source
                  THEN [c EXCEPT !.fault = "client_node_command: no socket source"]
                  ELSE [c EXCEPT !.mask_in = TRUE, !.started = TRUE,
                                 !.first = TRUE, !.thread_entered = FALSE]
           ELSE c
  ELSE c

\* do_sync: the wait ends with -1 when the connection is in error, with 0
\* when the reply of the server has come
do_sync(c) == IF c.error THEN "-1" ELSE "0"

\* do_activate: the data loop is started, the node is set active and the
\* reply is awaited
do_activate(c) == [c |-> [c EXCEPT !.loop = TRUE], res |-> do_sync(c)]

\* a write to c->activation: a fault when no activation record is mapped
activation_set(c, f, what) ==
  IF ~c.activation THEN [c EXCEPT !.fault = what] ELSE f

\* jack_activate
jack_activate(c) ==
  IF c.active THEN [c |-> c, res |-> "0"]
  ELSE LET a == do_activate(c)
       IN IF a.res # "0" THEN a
          ELSE [c |-> activation_set(a.c,
                        [a.c EXCEPT !.pending_new_pos = TRUE,
                                    !.pending_sync = TRUE,
                                    !.active = TRUE],
                        "jack_activate: no activation record"),
                res |-> "0"]

\* jack_deactivate: the node is set inactive, the reply awaited and the data
\* loop stopped; only then is the result of the wait looked at
jack_deactivate(c) ==
  IF ~c.active THEN [c |-> c, res |-> "0"]
  ELSE IF ~c.activation
         THEN [c |-> [c EXCEPT !.fault = "jack_deactivate: no activation record"],
               res |-> "0"]
  ELSE LET c1 == [c EXCEPT !.pending_new_pos = FALSE, !.pending_sync = FALSE,
                           !.loop = FALSE]
           res == do_sync(c)
       IN IF res # "0" THEN [c |-> c1, res |-> res]
          ELSE [c |-> [c1 EXCEPT !.active = FALSE], res |-> "0"]


\* the callbacks with hook h set (cb) or cleared
WithHook(c, h, cb) ==
  [c EXCEPT !.callbacks = IF cb THEN @ \cup {h} ELSE @ \ {h}]

\* jack_set_process_callback: refused on an active client and when a thread
\* callback is set
jack_set_process_callback(c, cb) ==
  IF c.active \/ "thread" \in c.callbacks
    THEN [c |-> c, res |-> "-EIO"]
    ELSE [c |-> WithHook(c, "process", cb), res |-> "0"]

\* jack_set_process_thread: refused on an active client and when a process
\* callback is set
jack_set_process_thread(c, cb) ==
  IF c.active \/ "process" \in c.callbacks
    THEN [c |-> c, res |-> "-EIO"]
    ELSE [c |-> WithHook(c, "thread", cb), res |-> "0"]

\* jack_set_sync_callback: the hook is stored and the client activated with
\* do_activate, whatever c->active is
jack_set_sync_callback(c, cb) ==
  LET a == do_activate(WithHook(c, "sync", cb))
  IN IF a.res # "0" THEN a
     ELSE [c |-> activation_set(a.c, [a.c EXCEPT !.pending_sync = TRUE],
                                "jack_set_sync_callback: no activation record"),
           res |-> "0"]

\* jack_set_timebase_callback as one step: -EIO without a driver; owned says
\* that segment_owner[0] already holds the client's id, won that the
\* conditional exchange or the unconditional store put it there; then the
\* hook is stored and the client activated with do_activate
jack_set_timebase_callback(c, owned, won) ==
  IF c.driver_activation = NULLPTR THEN [c |-> c, res |-> "-EIO"]
  ELSE IF c.driver_activation \notin MappedActivations(c)
    THEN [c |-> [c EXCEPT !.fault = "jack_set_timebase_callback: driver unmapped"],
          res |-> "0"]
  ELSE IF owned THEN [c |-> c, res |-> "0"]
  ELSE IF ~won THEN [c |-> c, res |-> "-EBUSY"]
  ELSE LET a == do_activate(WithHook(c, "timebase", TRUE))
       IN IF a.res # "0" THEN a
          ELSE [c |-> activation_set(a.c, [a.c EXCEPT !.pending_new_pos = TRUE],
                                     "jack_set_timebase_callback: no activation record"),
                res |-> "0"]

\* on_state_changed: the error state sets error; the error and the
\* unconnected state call the shutdown hook unless the client is being
\* closed
on_state_changed(c, state) ==
  LET c1 == [c EXCEPT !.state = state,
                      !.error = @ \/ state = PW_REMOTE_STATE_ERROR]
  IN [c |-> c1,
      log |-> IF /\ state \in {PW_REMOTE_STATE_ERROR, PW_REMOTE_STATE_UNCONNECTED}
                 /\ "shutdown" \in c.callbacks /\ ~c.destroyed
                THEN <<Event("shutdown", 0)>> ELSE <<>>]

\* the states the remote can move to: a connected remote fails or loses the
\* connection, a failed one is disconnected
NextStates(state) ==
  IF state = PW_REMOTE_STATE_CONNECTED
    THEN {PW_REMOTE_STATE_ERROR, PW_REMOTE_STATE_UNCONNECTED}
  ELSE IF state = PW_REMOTE_STATE_ERROR THEN {PW_REMOTE_STATE_UNCONNECTED}
  ELSE {}

\* jack_client_close: destroyed is set, then the core is destroyed, which
\* disconnects a remote that is not unconnected and reports the state
\* change, and the client is freed.  The data loop is not stopped.
jack_client_close(c) ==
  LET c1 == [c EXCEPT !.destroyed = TRUE]
      s == IF c.state # PW_REMOTE_STATE_UNCONNECTED
             THEN on_state_changed(c1, PW_REMOTE_STATE_UNCONNECTED)
             ELSE [c |-> c1, log |-> <<>>]
  IN [c |-> [s.c EXCEPT !.freed = TRUE], log |-> s.log]

(***************************************************************************)
(* The translation of the driver's position into jack_position_t.          *)
(* An activation record a is the part of struct pw_node_activation that    *)
(* position_to_jack and the cycle read: the state, the clock and the       *)
(* offset of a->position, its first segment with the bar, the owner of the *)
(* segment and the xrun count.  The beat of the bar is kept in ticks of    *)
(* 1/1920 beat.  The records of the model keep the clock at or after the   *)
(* offset and every value far below the width of its field, so that no     *)
(* sum or difference wraps.                                                *)
(***************************************************************************)
SPA_IO_POSITION_STATE_STOPPED == "STOPPED"
SPA_IO_POSITION_STATE_STARTING == "STARTING"
SPA_IO_POSITION_STATE_RUNNING == "RUNNING"
PositionStates == {SPA_IO_POSITION_STATE_STOPPED, SPA_IO_POSITION_STATE_STARTING,
                   SPA_IO_POSITION_STATE_RUNNING}
SPA_NSEC_PER_USEC == 1000
TicksPerBeat == 1920
JackPositionBBT == "JackPositionBBT"
JackBBTFrameOffset == "JackBBTFrameOffset"

\* the state position_to_jack returns
transport_state(a) ==
  IF a.state = SPA_IO_POSITION_STATE_STARTING THEN JackTransportStarting
  ELSE IF a.state = SPA_IO_POSITION_STATE_RUNNING
    THEN IF a.looping THEN JackTransportLooping ELSE JackTransportRolling
  ELSE JackTransportStopped

\* a call that leaves the first marker alone
write_unique_1_skipped(d) == d

\* d->unique_1++
write_unique_1(d) == [d EXCEPT !.unique_1 = @ + 1]

\* lines 839-848: usecs, frame_rate and frame
write_clock(a, d) ==
  LET running == a.clock_position - a.offset
  IN [d EXCEPT
       !.usecs = a.nsec \div SPA_NSEC_PER_USEC,
       !.frame_rate = a.denom,
       !.frame = IF /\ running >= a.seg_start
                    /\ \/ a.seg_duration = 0
                       \/ running < a.seg_start + a.seg_duration
                   THEN (running - a.seg_start) * a.seg_rate + a.seg_position
                   ELSE a.seg_position]

\* the bar fields with d->bar++ and d->beat++ applied to what the record
\* held
write_bbt_stale(a, d) ==
  [d EXCEPT !.valid = IF a.segment_owner # 0 /\ a.bar_valid
                        THEN {JackPositionBBT} ELSE {},
            !.bar = @ + 1,
            !.beat = @ + 1]

\* lines 850-876: valid, and the bar, beat and tick of an owned segment
\* with a valid bar
write_bbt(a, d) ==
  IF a.segment_owner # 0 /\ a.bar_valid
    THEN LET bar == (a.beat_ticks \div TicksPerBeat) \div a.signature_num
             beats == bar * a.signature_num
             beat == (a.beat_ticks \div TicksPerBeat) - beats
         IN [d EXCEPT
              !.valid = {JackPositionBBT} \cup
                        (IF a.bar_offset # 0 THEN {JackBBTFrameOffset} ELSE {}),
              !.bbt_offset = a.bar_offset,
              !.beats_per_bar = a.signature_num,
              !.beat_type = a.signature_denom,
              !.ticks_per_beat = TicksPerBeat,
              !.beats_per_minute = a.bpm,
              !.bar_start_tick = beats * TicksPerBeat,
              !.tick = a.beat_ticks - (beats + beat) * TicksPerBeat,
              !.bar = bar + 1,
              !.beat = beat + 1]
    ELSE [d EXCEPT !.valid = {}]

\* d->unique_2 = d->unique_1
write_unique_2(d) == [d EXCEPT !.unique_2 = d.unique_1]

\* position_to_jack with an output record, from its first to its last write
position_to_jack(a, d) ==
  [state |-> transport_state(a),
   d |-> write_unique_2(write_bbt(a, write_clock(a, write_unique_1(d))))]

\* a jack_position_t with the markers u1 and u2 and every other field zero
ZeroPosition(u1, u2) ==
  [unique_1 |-> u1, usecs |-> 0, frame_rate |-> 0, frame |-> 0, valid |-> {},
   bar |-> 0, beat |-> 0, tick |-> 0, bar_start_tick |-> 0,
   beats_per_bar |-> 0, beat_type |-> 0, ticks_per_beat |-> 0,
   beats_per_minute |-> 0, bbt_offset |-> 0, unique_2 |-> u2]

\* an activation record of a running driver at the clock position
\* clock_position, 1000 ns a frame, with one open segment from 0; with
\* owner and bar_valid the segment has an owner and a bar of 4/4 at 120 bpm,
\* ten ticks a frame
PositionRecord(clock_position, owner, bar_valid) ==
  [state |-> SPA_IO_POSITION_STATE_RUNNING, looping |-> FALSE,
   nsec |-> clock_position * 1000, denom |-> 48000,
   clock_position |-> clock_position, offset |-> 0,
   seg_start |-> 0, seg_duration |-> 0, seg_rate |-> 1, seg_position |-> 0,
   segment_owner |-> owner, bar_valid |-> bar_valid, bar_offset |-> 0,
   signature_num |-> 4, signature_denom |-> 4, bpm |-> 120,
   beat_ticks |-> clock_position * 10]

\* the records a call can find: the clock at 0 or one period of 960 frames
\* on, the segment with no owner or with an owner and a valid bar
PositionRecords ==
  {PositionRecord(clock_position, ob[1], ob[2]) :
     clock_position \in {0, 960}, ob \in {<<0, FALSE>>, <<1, TRUE>>}}

\* a reader that has read nothing
IdleReader(n) ==
  [pc |-> "idle", n |-> n, before |-> <<0, 0>>, after |-> <<0, 0>>,
   clock |-> 0, bbt |-> 0, clears |-> 0, zeroed |-> FALSE]

\* a record with the markers u1 and u2, handed to position_to_jack for
\* the first time: the jack_position of the client has both markers 0, the
\* record of a caller of jack_transport_query holds what the caller left
InitPosAt(markers) ==
  /\ \E m \in markers :
       /\ jp = ZeroPosition(m[1], m[2])
       /\ jp_zeroed = (m[1] = m[2])
  /\ jp_a = PositionRecord(0, 0, FALSE)
  /\ jp_pc = 0
  /\ jp_start = jp
  /\ jp_stamp = [clock |-> 0, bbt |-> 0]
  /\ jp_call = 0
  /\ jp_done = <<>>
  /\ jp_clears = 0
  /\ rdr = IdleReader(0)

\* position_to_jack begins on the activation record a: line 838
JpBegin ==
  /\ jp_pc = 0 /\ jp_call < MaxPosCalls
  /\ \E a \in PositionRecords : jp_a' = a
  /\ jp_start' = jp
  /\ jp' = write_unique_1(jp)
  /\ jp_call' = jp_call + 1
  /\ jp_pc' = 1
  /\ UNCHANGED <<jp_stamp, jp_done, jp_zeroed, jp_clears, rdr>>

\* lines 839-848
JpClock ==
  /\ jp_pc = 1
  /\ jp' = write_clock(jp_a, jp)
  /\ jp_stamp' = [jp_stamp EXCEPT !.clock = jp_call]
  /\ jp_pc' = 2
  /\ UNCHANGED <<jp_a, jp_start, jp_call, jp_done, jp_zeroed, jp_clears, rdr>>

\* lines 850-876
JpBbt ==
  /\ jp_pc = 2
  /\ jp' = write_bbt(jp_a, jp)
  /\ jp_stamp' = [jp_stamp EXCEPT !.bbt = jp_call]
  /\ jp_pc' = 3
  /\ UNCHANGED <<jp_a, jp_start, jp_call, jp_done, jp_zeroed, jp_clears, rdr>>

\* line 877, and the call returns
JpEnd ==
  /\ jp_pc = 3
  /\ jp' = write_unique_2(jp)
  /\ jp_done' = Append(jp_done, [a |-> jp_a, d |-> jp'])
  /\ jp_pc' = 0
  /\ UNCHANGED <<jp_a, jp_start, jp_stamp, jp_call, jp_zeroed, jp_clears, rdr>>

\* jack_transport_query of a client with no driver activation: the record
\* is cleared
JpClear ==
  /\ jp_pc = 0 /\ jp_call < MaxPosCalls
  /\ jp' = ZeroPosition(0, 0)
  /\ jp_call' = jp_call + 1
  /\ jp_stamp' = [clock |-> jp_call', bbt |-> jp_call']
  /\ jp_done' = <<>>
  /\ jp_zeroed' = TRUE
  /\ jp_clears' = jp_clears + 1
  /\ UNCHANGED <<jp_a, jp_pc, jp_start, rdr>>

\* a reader in another thread: it reads the two markers, the clock fields,
\* the bar fields and the two markers again; clears counts the clears of
\* the record during the read, zeroed tells if the markers of the record
\* were equal when it was handed over or cleared before the read
RdStep ==
  /\ \/ /\ rdr.pc = "idle" /\ rdr.n < MaxReads
        /\ rdr' = [rdr EXCEPT !.pc = "began", !.n = @ + 1,
                              !.before = <<jp.unique_1, jp.unique_2>>,
                              !.clears = jp_clears,
                              !.zeroed = jp_zeroed]
     \/ /\ rdr.pc = "began"
        /\ rdr' = [rdr EXCEPT !.pc = "clock", !.clock = jp_stamp.clock]
     \/ /\ rdr.pc = "clock"
        /\ rdr' = [rdr EXCEPT !.pc = "bbt", !.bbt = jp_stamp.bbt]
     \/ /\ rdr.pc = "bbt"
        /\ rdr' = [rdr EXCEPT !.pc = "done",
                              !.after = <<jp.unique_1, jp.unique_2>>,
                              !.clears = jp_clears - @]
     \/ /\ rdr.pc = "done"
        /\ rdr' = IdleReader(rdr.n)
  /\ UNCHANGED <<jp, jp_a, jp_pc, jp_start, jp_stamp, jp_call, jp_done,
                 jp_zeroed, jp_clears>>

\* the calls on one jack_position_t and the reader
NextPosition ==
  /\ UNCHANGED <<tbVars, midiVars, poolVars, engineVars, audioVars, signalVars, bufferVars, registryVars, lockVars, syncVars, repositionVars>>
  /\ (JpBegin \/ JpClock \/ JpBbt \/ JpEnd \/ JpClear \/ RdStep)


(***************************************************************************)
(* One audio input port and the buffer jack_port_get_buffer returns.       *)
(* A buffer holds AudioFrames samples, as MAX_BUFFER_FRAMES in the source; *)
(* samples are integers and the sum of two samples is their sum.  A mix    *)
(* has its io area or not (io), the buffer id the server left in the io    *)
(* area (buffer_id), the number of buffers it was given (n_buffers), and   *)
(* for its buffer 0 the data pointer (ptr: "mapped", "NULL" for a buffer   *)
(* that never had its memory mapped, "stale" for one whose mapping was     *)
(* freed) and the samples behind it (data).                                *)
(***************************************************************************)
Silence == [i \in 1..AudioFrames |-> 0]
\* the samples of a source that plays v
Samples(v) == [i \in 1..AudioFrames |-> v * i]
SampleValues == {1, 4}

\* the pointers jack_port_get_buffer returns: the fallback buffer of the
\* port, the buffer of mix i, or none
EMPTYPTR == 0
NOBUFFER == 0 - 1

\* alloc_port: a port with no mix; the empty array is part of the client
\* that calloc returned
AudioPort == [emptyptr |-> Silence, zeroed |-> FALSE, mix |-> <<>>]

\* ensure_mix for a port of its own: the mix i of the port, added at the
\* end of the list with no io and no buffers when the port has i - 1 mixes
port_ensure_mix(p, i) ==
  IF i \in DOMAIN p.mix THEN p
  ELSE [p EXCEPT !.mix = Append(@, [io |-> FALSE, buffer_id |-> 0, n_buffers |-> 0,
                                    ptr |-> "NULL", data |-> Silence])]

\* client_node_port_use_buffers on the port, with at most one buffer: the buffers the
\* mix had are unmapped; a buffer whose memory maps gets its data pointer
\* and the fallback buffer is cleared, one that does not map is skipped,
\* and n_buffers is set in both cases
port_use_buffers(p, i, n_buffers, map_ok) ==
  LET p1 == port_ensure_mix(p, i)
      cleared == [p1.mix[i] EXCEPT
                    !.ptr = IF @ = "mapped" /\ p1.mix[i].n_buffers > 0
                              THEN "stale" ELSE @,
                    !.n_buffers = 0]
  IN IF n_buffers > 0 /\ map_ok
       THEN [p1 EXCEPT !.mix[i] = [cleared EXCEPT !.ptr = "mapped",
                                                  !.n_buffers = n_buffers],
                       !.emptyptr = Silence,
                       !.zeroed = TRUE]
       ELSE [p1 EXCEPT !.mix[i] = [cleared EXCEPT !.n_buffers = n_buffers]]

\* client_node_port_set_io on the port, for SPA_IO_Buffers
port_set_io(p, i, io) ==
  LET p1 == port_ensure_mix(p, i)
  IN [p1 EXCEPT !.mix[i].io = io]

\* the peer of mix i leaves the samples of v in the buffer and the id of
\* the buffer in the io area
peer_process(p, i, buffer_id, v) ==
  [p EXCEPT !.mix[i].buffer_id = buffer_id,
            !.mix[i].data = IF p.mix[i].ptr = "mapped" THEN Samples(v) ELSE @]

\* mix2_c and mix2_sse: the first n_samples samples of dst become the sums
mix2(dst, src1, src2, n_samples) ==
  [i \in 1..AudioFrames |-> IF i <= n_samples THEN src1[i] + src2[i] ELSE dst[i]]

\* the samples behind the pointer ptr of port p
BufferAt(p, ptr) ==
  IF ptr = EMPTYPTR THEN p.emptyptr ELSE p.mix[ptr].data

RECURSIVE input_float_from(_, _, _, _)
\* the loop of get_buffer_input_float from mix i on, with st holding the
\* port, the pointer so far and the layers found; reading through a
\* pointer that is NULL or stale is a fault
input_float_from(st, i, frames, fault) ==
  IF fault # "none" \/ i > Len(st.p.mix)
    THEN [p |-> st.p, ptr |-> st.ptr, fault |-> fault]
  ELSE
    LET mix == st.p.mix[i]
    IN IF ~mix.io \/ mix.buffer_id >= mix.n_buffers
         THEN input_float_from(st, i + 1, frames, fault)
       ELSE IF st.layer = 0
         THEN input_float_from(
                [st EXCEPT !.layer = 1,
                           !.ptr = IF mix.ptr = "NULL" THEN NOBUFFER ELSE i],
                i + 1, frames, fault)
       ELSE IF st.ptr = NOBUFFER \/ mix.ptr # "mapped"
               \/ (st.ptr # EMPTYPTR /\ st.p.mix[st.ptr].ptr # "mapped")
         THEN input_float_from(st, i + 1, frames, "mix2: source not mapped")
       ELSE input_float_from(
              [st EXCEPT !.layer = @ + 1,
                         !.p.emptyptr = mix2(@, BufferAt(st.p, st.ptr),
                                             mix.data, frames),
                         !.p.zeroed = FALSE,
                         !.ptr = EMPTYPTR],
              i + 1, frames, fault)

get_buffer_input_float(p, frames) ==
  input_float_from([p |-> p, ptr |-> NOBUFFER, layer |-> 0], 1, frames, "none")

\* jack_port_get_buffer of an audio input port: without a source the
\* fallback buffer, cleared if it is not known to be clear
jack_port_get_buffer(p, frames) ==
  LET r == get_buffer_input_float(p, frames)
  IN IF r.fault # "none" \/ r.ptr # NOBUFFER THEN r
     ELSE [p |-> IF r.p.zeroed THEN r.p
                 ELSE [r.p EXCEPT !.emptyptr = Silence, !.zeroed = TRUE],
           ptr |-> EMPTYPTR, fault |-> "none"]

\* one call or event op on the port
AuStep(op, p, frames, ptr, fault) ==
  /\ au_last.fault = "none"
  /\ au_calls < MaxAudioCalls
  /\ au_calls' = au_calls + 1
  /\ au' = p
  /\ au_last' = [op |-> op, frames |-> frames, ptr |-> ptr, fault |-> fault,
                 out |-> IF ptr = NOBUFFER \/ fault # "none" THEN Silence
                         ELSE BufferAt(p, ptr)]

AuUseBuffers ==
  \E i \in 1..MaxSources, n_buffers \in 0..1, map_ok \in BOOLEAN :
    /\ i <= Len(au.mix) + 1
    /\ AuStep("client_node_port_use_buffers",
              port_use_buffers(au, i, n_buffers, map_ok),
              0, NOBUFFER, "none")

AuSetIo ==
  \E i \in 1..MaxSources, io \in BOOLEAN :
    /\ i <= Len(au.mix) + 1
    /\ AuStep("client_node_port_set_io", port_set_io(au, i, io),
              0, NOBUFFER, "none")

AuPeer ==
  \E i \in DOMAIN au.mix, buffer_id \in 0..1, v \in SampleValues :
    /\ au.mix[i].io
    /\ AuStep("peer", peer_process(au, i, buffer_id, v), 0, NOBUFFER, "none")

AuGetBuffer ==
  \E frames \in 1..AudioFrames :
    LET r == jack_port_get_buffer(au, frames)
    IN AuStep("jack_port_get_buffer", r.p, frames, r.ptr, r.fault)

\* a port with n connections, each with its io area and one mapped buffer
\* in which its peer plays 1
RECURSIVE ConnectedPort(_)
ConnectedPort(n) ==
  IF n = 0 THEN AudioPort
  ELSE peer_process(
         port_set_io(
           port_use_buffers(ConnectedPort(n - 1), n, 1, TRUE),
           n, TRUE),
         n, 0, 1)

InitAudioAt(ports) ==
  /\ au \in ports
  /\ au_last = [op |-> "none", frames |-> 0, ptr |-> NOBUFFER, fault |-> "none",
                out |-> Silence]
  /\ au_calls = 0

\* the port under the events of the server, the peers and the reads of
\* the application
NextAudio ==
  /\ UNCHANGED <<tbVars, midiVars, poolVars, engineVars, posVars, signalVars, bufferVars, registryVars, lockVars, syncVars, repositionVars>>
  /\ (AuUseBuffers \/ AuSetIo \/ AuPeer \/ AuGetBuffer)


\* what a cycle reads from outside the client: the result of the read on the
\* wake socket (rd), pos->clock.duration and pos->clock.rate.denom, the
\* driver's activation record (a), and what the sync hook and the process
\* callback return
ReadResults == {"ok", "EWOULDBLOCK", "EIO"}

\* what a cycle reads of the activation record of its driver: the state
\* of the position and the flags of its first segment, from which
\* position_to_jack takes the transport state, the owner of the segment
\* and the xrun count
DriverRecord(st, looping, owner, xruns) ==
  [state |-> st, looping |-> looping, segment_owner |-> owner,
   xrun_count |-> xruns]

\* the warning of line 892 for a read that did not return the 8 bytes, with
\* the error of the read
read_failed(rd) ==
  IF rd = "ok" THEN <<>> ELSE <<Event("read failed", IF rd = "EWOULDBLOCK" THEN 1 ELSE 0)>>

\* cycle_run with the comparisons of lines 914 and 922 left out: the
\* buffer-size and sample-rate hooks run in every cycle that reads the
\* position
cycle_run_unconditional(c, in) ==
  IF in.rd = "EWOULDBLOCK" \/ ~c.position \/ ~c.activation
    THEN [c |-> c, log |-> <<>>, frames |-> 0]
  ELSE [c |-> [c EXCEPT !.status = PW_NODE_ACTIVATION_AWAKE,
                        !.first = FALSE,
                        !.buffer_frames = in.duration,
                        !.sample_rate = in.denom],
        log |-> <<Event("AWAKE", 0)>>
                \o (IF "bufsize" \in c.callbacks
                      THEN <<Event("bufsize", in.duration)>> ELSE <<>>)
                \o (IF "srate" \in c.callbacks
                      THEN <<Event("srate", in.denom)>> ELSE <<>>),
        frames |-> in.duration]

\* cycle_run: the events of the cycle so far, the client and the period.
\* A failed read that would block returns 0, any other failed read goes on;
\* a missing position returns 0.  Of the call of position_to_jack the
\* client keeps the state it returns; c->jack_position, which only the
\* hooks read, is not kept.
cycle_run(c, in) ==
  IF in.rd = "EWOULDBLOCK" \/ ~c.position
    THEN [c |-> c, log |-> read_failed(in.rd), frames |-> 0]
  ELSE IF ~c.activation
    THEN [c |-> [c EXCEPT !.fault = "cycle_run: no activation record"],
          log |-> read_failed(in.rd), frames |-> 0]
  ELSE
    LET cbs == c.callbacks
        buffer_frames == in.duration
        sample_rate == in.denom
        l1 == read_failed(in.rd) \o <<Event("AWAKE", 0)>>
              \o (IF c.first /\ "thread_init" \in cbs
                    THEN <<Event("thread_init", 0)>> ELSE <<>>)
              \o (IF buffer_frames # c.buffer_frames /\ "bufsize" \in cbs
                    THEN <<Event("bufsize", buffer_frames)>> ELSE <<>>)
              \o (IF sample_rate # c.sample_rate /\ "srate" \in cbs
                    THEN <<Event("srate", sample_rate)>> ELSE <<>>)
        c1 == [c EXCEPT !.status = PW_NODE_ACTIVATION_AWAKE,
                        !.first = FALSE,
                        !.buffer_frames = buffer_frames,
                        !.sample_rate = sample_rate]
    IN IF c.driver_activation = NULLPTR
         THEN [c |-> [c1 EXCEPT !.fault = "position_to_jack: no driver activation"],
               log |-> l1, frames |-> 0]
       ELSE IF c.driver_activation \notin MappedActivations(c)
         THEN [c |-> [c1 EXCEPT !.fault = "position_to_jack: driver activation unmapped"],
               log |-> l1, frames |-> 0]
       ELSE
         LET synced == c.pending_sync /\ ("sync" \notin cbs \/ in.sync_ret)
             l2 == (IF c.pending_sync /\ "sync" \in cbs
                      THEN <<Event("sync", 0)>> ELSE <<>>)
                   \o (IF /\ c.xrun_count # in.a.xrun_count
                          /\ c.xrun_count # 0 /\ "xrun" \in cbs
                         THEN <<Event("xrun", 0)>> ELSE <<>>)
         IN [c |-> [c1 EXCEPT
                     !.jack_state = transport_state(in.a),
                     !.pending_sync = @ /\ ~synced,
                     !.xrun_count = in.a.xrun_count],
             log |-> l1 \o l2, frames |-> buffer_frames]

RECURSIVE dec_links(_, _)
\* the loop of signal_sync from link k on: the pending counter of every
\* link with an activation record goes down by one
dec_links(links, k) ==
  IF k > Len(links) THEN links
  ELSE dec_links(IF links[k].activation = NULLPTR THEN links
                 ELSE [links EXCEPT ![k].pending = @ - 1], k + 1)

\* signal_sync: the status becomes FINISHED and the links are signalled
signal_sync(c) ==
  IF ~c.activation
    THEN [c |-> [c EXCEPT !.fault = "signal_sync: no activation record"],
          log |-> <<>>]
    ELSE [c |-> [c EXCEPT !.status = PW_NODE_ACTIVATION_FINISHED,
                          !.links = dec_links(c.links, 1)],
          log |-> <<Event("FINISHED", 0)>>
                  \o [k \in 1..Cardinality({j \in DOMAIN c.links :
                                             c.links[j].activation # NULLPTR})
                       |-> Event("dec", 0)]]

\* the bar of a segment nobody wrote
NoBar ==
  [valid |-> FALSE, offset |-> 0, signature_num |-> 0, signature_denom |-> 0,
   bpm |-> 0, beat_ticks |-> 0]

\* jack_to_position: the bar of the segment after the call with the
\* position s and the bar d; bar.beat is kept in ticks, that is
\* multiplied by ticks_per_beat
jack_to_position(s, d) ==
  IF JackPositionBBT \in s.valid
    THEN [valid |-> TRUE,
          offset |-> IF JackBBTFrameOffset \in s.valid THEN s.bbt_offset ELSE 0,
          signature_num |-> s.beats_per_bar,
          signature_denom |-> s.beat_type,
          bpm |-> s.beats_per_minute,
          beat_ticks |-> ((s.bar - 1) * s.beats_per_bar + (s.beat - 1))
                           * s.ticks_per_beat + s.tick]
    ELSE d

\* the position a timebase hook leaves in c->jack_position: with bbt, bar 2
\* beat 3 tick 4 of a 4/4 bar at 120 bpm, else a position without a bar
HookPosition(bbt) ==
  IF bbt
    THEN [ZeroPosition(0, 0) EXCEPT
           !.valid = {JackPositionBBT}, !.bar = 2, !.beat = 3, !.tick = 4,
           !.beats_per_bar = 4, !.beat_type = 4, !.ticks_per_beat = TicksPerBeat,
           !.beats_per_minute = 120]
    ELSE ZeroPosition(0, 0)

\* cycle_signal without the test of the segment owner: the timebase hook
\* of every client that registered one runs
cycle_signal_any_owner(c, status, in) ==
  LET timebase == /\ status = 0
                  /\ "timebase" \in c.callbacks
                  /\ c.driver_activation # NULLPTR
  IN IF timebase /\ c.driver_activation \notin MappedActivations(c)
       THEN [c |-> [c EXCEPT !.fault = "cycle_signal: driver activation unmapped"],
             log |-> <<>>]
     ELSE IF /\ timebase
             /\ \/ c.pending_new_pos
                \/ c.jack_state \in {JackTransportRolling, JackTransportLooping}
       THEN LET s == signal_sync([c EXCEPT !.pending_new_pos = FALSE])
                bar == jack_to_position(HookPosition(in.bbt), NoBar)
            IN [c |-> s.c,
                log |-> <<Event("timebase", IF c.pending_new_pos THEN 1 ELSE 0)>>
                        \o (IF bar.valid THEN <<Event("bar.beat", bar.beat_ticks)>>
                            ELSE <<>>)
                        \o s.log]
     ELSE signal_sync(c)

\* cycle_signal: with status 0 the timebase hook of the segment's owner
\* runs when a new position is pending or the transport rolls, the pending
\* flag is cleared and jack_to_position writes the bar the hook produced
\* to the segment; then signal_sync
cycle_signal(c, status, in) ==
  LET timebase == /\ status = 0
                  /\ "timebase" \in c.callbacks
                  /\ c.driver_activation # NULLPTR
  IN IF timebase /\ c.driver_activation \notin MappedActivations(c)
       THEN [c |-> [c EXCEPT !.fault = "cycle_signal: driver activation unmapped"],
             log |-> <<>>]
     ELSE IF /\ timebase
             /\ in.a.segment_owner = c.node_id
             /\ \/ c.pending_new_pos
                \/ c.jack_state \in {JackTransportRolling, JackTransportLooping}
       THEN LET s == signal_sync([c EXCEPT !.pending_new_pos = FALSE])
                bar == jack_to_position(HookPosition(in.bbt), NoBar)
            IN [c |-> s.c,
                log |-> <<Event("timebase", IF c.pending_new_pos THEN 1 ELSE 0)>>
                        \o (IF bar.valid THEN <<Event("bar.beat", bar.beat_ticks)>>
                            ELSE <<>>)
                        \o s.log]
     ELSE signal_sync(c)

\* on_rtsocket_condition
on_rtsocket_condition(c, mask, in) ==
  IF c.freed
    THEN [c |-> [c EXCEPT !.fault = "on_rtsocket_condition: client freed"],
          log |-> <<>>]
  ELSE IF mask = "ERR"
    THEN [c |-> unhandle_socket(c), log |-> <<>>]
  ELSE IF "thread" \in c.callbacks
    THEN IF ~c.thread_entered
           THEN [c |-> [c EXCEPT !.thread_entered = TRUE],
                 log |-> <<Event("thread", 0)>>]
           ELSE [c |-> c, log |-> <<>>]
  ELSE LET r == cycle_run(c, in)
       IN IF r.c.fault # "none" THEN [c |-> r.c, log |-> r.log]
          ELSE LET status == IF "process" \in c.callbacks THEN in.status ELSE 0
                   s == cycle_signal(r.c, status, in)
               IN [c |-> s.c,
                   log |-> r.log
                           \o (IF "process" \in c.callbacks
                                 THEN <<Event("process", r.frames)>> ELSE <<>>)
                           \o s.log]

\* the driver records a cycle of client c can read: the transport stopped
\* or rolling and the segment owned by the client or by nobody when a
\* timebase hook is registered, the xrun count 1 or 2 when an xrun hook is
RolledRecords(c) ==
  {DriverRecord(st, FALSE, owner, xruns) :
     st \in IF "timebase" \in c.callbacks
              THEN {SPA_IO_POSITION_STATE_STOPPED, SPA_IO_POSITION_STATE_RUNNING}
              ELSE {SPA_IO_POSITION_STATE_STOPPED},
     owner \in IF "timebase" \in c.callbacks THEN {0, c.node_id} ELSE {0},
     xruns \in IF "xrun" \in c.callbacks THEN 1..2 ELSE {0}}

\* the inputs of a wake that the cycle of client c can read: what it does
\* not read is left at one value
WakeInputs(c) ==
  LET runs == "thread" \notin c.callbacks
      driven == runs /\ c.driver_activation \in MappedActivations(c)
      idle == DriverRecord(SPA_IO_POSITION_STATE_STOPPED, FALSE, 0, 0)
  IN {in \in [rd : IF runs THEN ReadResults ELSE {"ok"},
              duration : IF runs /\ c.position THEN Durations ELSE {256},
              denom : IF runs /\ c.position THEN Rates ELSE {48000},
              a : IF driven THEN RolledRecords(c) ELSE {idle},
              sync_ret : IF driven /\ c.position /\ c.pending_sync
                            /\ "sync" \in c.callbacks
                           THEN BOOLEAN ELSE {TRUE},
              status : IF runs /\ "process" \in c.callbacks THEN {0, 1} ELSE {0},
              bbt : IF runs /\ "timebase" \in c.callbacks THEN BOOLEAN
                    ELSE {FALSE}] :
        /\ in.rd = "EWOULDBLOCK" =>
             /\ in.duration = 256 /\ in.denom = 48000 /\ in.sync_ret
             /\ in.a.state = SPA_IO_POSITION_STATE_STOPPED
             /\ in.a.xrun_count \in {0, 1}
        /\ in.duration = 512 => in.denom = 48000
        /\ in.bbt => in.a.segment_owner = c.node_id /\ in.status = 0}

\* what a wake reads when nothing is there to read
NoWake ==
  [rd |-> "ok", duration |-> 256, denom |-> 48000,
   a |-> DriverRecord(SPA_IO_POSITION_STATE_STOPPED, FALSE, 0, 0),
   sync_ret |-> TRUE, status |-> 0, bbt |-> FALSE]

\* one call or event op on the client with outcome r; in is what the wake
\* read when op is a wake
RtStepIn(op, r, res, log, in) ==
  /\ rt.fault = "none"
  /\ rt_calls' = rt_calls + 1
  /\ rt' = r
  /\ rt_in' = in
  /\ rt_last' = [op |-> op, res |-> res, log |-> log]
  /\ rt_quiet' = IF op = "jack_activate" THEN FALSE
                 ELSE IF op = "jack_deactivate" /\ res = "0" THEN TRUE
                 ELSE rt_quiet

RtStep(op, r, res, log) == RtStepIn(op, r, res, log, NoWake)

\* the events the server sends on the client node
RtServer ==
  /\ ~rt.freed
  /\ \/ \E node_id \in NodeIds : \E map_ok \in BOOLEAN :
          RtStep("client_node_transport",
                 client_node_transport(rt, node_id, map_ok), "0", <<>>)
     \/ \E mem \in BOOLEAN : \E map_ok \in {m \in BOOLEAN : mem \/ m} :
        \E clock_id \in {n \in NodeIds : mem \/ n = 1} :
          RtStep("client_node_set_io",
                 client_node_set_io(rt, SPA_IO_Position, mem, map_ok, clock_id),
                 "0", <<>>)
     \/ \E node_id \in NodeIds : \E mem \in BOOLEAN :
        \E map_ok \in {m \in BOOLEAN : mem \/ m} :
          RtStep("client_node_set_activation",
                 client_node_set_activation(rt, node_id, mem, map_ok, 1),
                 "0", <<>>)

\* the commands the server sends to the client node
RtCommand ==
  /\ ~rt.freed
  /\ \E command \in {SPA_NODE_COMMAND_Start, SPA_NODE_COMMAND_Pause} :
       RtStep("client_node_command", client_node_command(rt, command),
              "0", <<>>)

\* the state changes of the remote
RtRemote ==
  /\ ~rt.freed
  /\ \E state \in NextStates(rt.state) :
       LET r == on_state_changed(rt, state)
       IN RtStep("on_state_changed", r.c, "0", r.log)

\* the calls of the application that register the callbacks of a cycle
RtRegister ==
  /\ ~rt.freed
  /\ \/ \E cb \in BOOLEAN :
          LET r == jack_set_process_callback(rt, cb)
          IN RtStep("jack_set_process_callback", r.c, r.res, <<>>)
     \/ \E cb \in BOOLEAN :
          LET r == jack_set_process_thread(rt, cb)
          IN RtStep("jack_set_process_thread", r.c, r.res, <<>>)
     \/ LET r == jack_set_sync_callback(rt, TRUE)
        IN RtStep("jack_set_sync_callback", r.c, r.res, <<>>)
     \/ \E owned \in BOOLEAN : \E won \in {w \in BOOLEAN : ~owned \/ w} :
          LET r == jack_set_timebase_callback(rt, owned, won)
          IN RtStep("jack_set_timebase_callback", r.c, r.res, <<>>)

\* the calls of the application that start, stop and close the client
RtLifecycle ==
  /\ ~rt.freed
  /\ \/ LET r == jack_activate(rt)
        IN RtStep("jack_activate", r.c, r.res, <<>>)
     \/ LET r == jack_deactivate(rt)
        IN RtStep("jack_deactivate", r.c, r.res, <<>>)
     \/ LET r == jack_client_close(rt)
        IN RtStep("jack_client_close", r.c, "0", r.log)

\* the data loop dispatches the socket source: an error or hangup at any
\* time, input when the source polls it
RtWake ==
  /\ rt.loop /\ rt.socket_source
  /\ \E mask \in {"IN", "ERR"} :
       /\ mask = "IN" => rt.mask_in
       /\ \E in \in IF mask = "IN" /\ ~rt.freed THEN WakeInputs(rt)
                    ELSE {NoWake} :
            LET r == on_rtsocket_condition(rt, mask, in)
            IN RtStepIn("on_rtsocket_condition", r.c, mask, r.log, in)

\* a client that was opened, registered the hooks cbs and got its
\* transport as node 1; with link, the activation record of node 2 is
\* linked, with pos, the position of the driver node 2 is set; setup are
\* the calls of the application that follow, in the order timebase, sync,
\* process or thread callback, jack_activate, and then the Start command
Setup(cbs, link, pos, setup) ==
  LET c1 == client_node_transport(OpenClient(cbs), 1, TRUE)
      c2 == IF link THEN client_node_set_activation(c1, 2, TRUE, TRUE, 1) ELSE c1
      c3 == IF pos THEN client_node_set_io(c2, SPA_IO_Position, TRUE, TRUE, 2) ELSE c2
      c4 == IF "timebase" \in setup
              THEN jack_set_timebase_callback(c3, FALSE, TRUE).c ELSE c3
      c5 == IF "sync" \in setup THEN jack_set_sync_callback(c4, TRUE).c ELSE c4
      c6 == IF "process" \in setup THEN jack_set_process_callback(c5, TRUE).c
            ELSE IF "thread" \in setup THEN jack_set_process_thread(c5, TRUE).c
            ELSE c5
      c7 == IF "activate" \in setup THEN jack_activate(c6).c ELSE c6
  IN IF "Start" \in setup THEN client_node_command(c7, SPA_NODE_COMMAND_Start)
     ELSE c7

\* the engine from the client record c on
InitRt(clients) ==
  /\ rt \in clients
  /\ rt_last = [op |-> "none", res |-> "0", log |-> <<>>]
  /\ rt_calls = 0
  /\ rt_quiet = FALSE
  /\ rt_in = NoWake

(***************************************************************************)
(* The end of a period: signal_sync of the clients that share downstream   *)
(* nodes.  The activation record of a node is memory shared by the         *)
(* processes; each client goes through signal_sync one write at a time.    *)
(***************************************************************************)
PW_NODE_ACTIVATION_TRIGGERED == "TRIGGERED"
Upstream == 1..NumUpstream
Downstream == 1..NumDownstream

\* an activation record of a node at the start of a period: pending is
\* required.  triggers, wakes, by and finished are history: the times the
\* status was set to TRIGGERED, the wake values that reached the
\* descriptor, the clients that set it and the clients whose status was
\* FINISHED when it was set
StartActivation(required) ==
  [required |-> required, pending |-> required,
   status |-> PW_NODE_ACTIVATION_NOT_TRIGGERED,
   triggers |-> 0, wakes |-> 0, by |-> {}, finished |-> {}]

\* the subtraction that reports zero one step early
state_dec_early(a) ==
  [a |-> [a EXCEPT !.pending = @ - 1], zero |-> a.pending - 1 <= 1]

\* pw_node_activation_state_dec(state, 1): one atomic subtraction, true
\* when the counter is zero after it
pw_node_activation_state_dec(a) ==
  [a |-> [a EXCEPT !.pending = @ - 1], zero |-> a.pending - 1 = 0]

\* a link of the array: cleared, or with the activation record of node d
SignalLink(d) ==
  IF d = 0 THEN [node_id |-> SPA_ID_INVALID, activation |-> NULLPTR]
  ELSE [node_id |-> d, activation |-> d]

\* a client in its cycle, before signal_sync: pc is 0 before the status is
\* written and then the link the loop is at; zero says that the
\* subtraction on that link returned true and the body of the if is to run;
\* log is history, the writes of the client in their order
AwakeClient(links) ==
  [status |-> PW_NODE_ACTIVATION_AWAKE, links |-> links, pc |-> 0,
   zero |-> FALSE, log |-> <<>>]

SignalEvent(ev, k, arg) == [ev |-> ev, k |-> k, arg |-> arg]

\* signal_sync, lines 970-973: the status of the client becomes FINISHED
sync_finished(u) ==
  /\ sg_up[u].pc = 0
  /\ sg_up' = [sg_up EXCEPT ![u].status = PW_NODE_ACTIVATION_FINISHED,
                            ![u].pc = 1,
                            ![u].log = Append(@, SignalEvent("FINISHED", 0, 0))]
  /\ UNCHANGED sg_act

\* signal_sync, lines 976-987: a link without an activation record is
\* skipped, the pending counter of any other link goes down by one
sync_link(u) ==
  LET up == sg_up[u]
      k == up.pc
  IN /\ k \in 1..Len(up.links) /\ ~up.zero
     /\ IF up.links[k].activation = NULLPTR
          THEN /\ sg_up' = [sg_up EXCEPT ![u].pc = k + 1]
               /\ UNCHANGED sg_act
          ELSE LET d == up.links[k].activation
                   r == pw_node_activation_state_dec(sg_act[d])
               IN /\ sg_act' = [sg_act EXCEPT ![d] = r.a]
                  /\ sg_up' = [sg_up EXCEPT
                                ![u].zero = r.zero,
                                ![u].pc = IF r.zero THEN k ELSE k + 1,
                                ![u].log = Append(@,
                                             SignalEvent("dec", k, r.a.pending))]

\* a loop that ends at a failed write
after_write_stop(k, n, write_ok) == IF write_ok THEN k + 1 ELSE n + 1

\* the link the loop of signal_sync goes to after the write on link k of n
after_write(k, n, write_ok) == k + 1

\* signal_sync, lines 988-994: the node behind the link is marked
\* TRIGGERED and the wake value is written to the descriptor of the link;
\* a write that fails is logged and the loop goes on
sync_trigger(u, write_ok) ==
  LET up == sg_up[u]
      k == up.pc
      d == up.links[k].activation
  IN /\ up.zero
     /\ sg_act' = [sg_act EXCEPT
                    ![d].status = PW_NODE_ACTIVATION_TRIGGERED,
                    ![d].triggers = @ + 1,
                    ![d].wakes = @ + (IF write_ok THEN 1 ELSE 0),
                    ![d].by = @ \cup {u},
                    ![d].finished =
                       {v \in Upstream :
                          sg_up[v].status = PW_NODE_ACTIVATION_FINISHED}]
     /\ sg_up' = [sg_up EXCEPT
                   ![u].zero = FALSE,
                   ![u].pc = after_write(k, Len(up.links), write_ok),
                   ![u].log = @ \o <<SignalEvent("TRIGGERED", k, 0),
                                     SignalEvent("write", k,
                                                 IF write_ok THEN 1 ELSE 0)>>]

\* the arrays of links a client can have: up to MaxLinks links, each
\* cleared or with the activation record of a node
LinkArraysOf(n) == [1..n -> {SignalLink(d) : d \in 0..NumDownstream}]

\* no client signals: no node, no links
InitSignalIdle ==
  /\ sg_act = [d \in Downstream |-> StartActivation(1)]
  /\ sg_up = [u \in Upstream |-> AwakeClient(<<>>)]

\* the start of a period: every node with its pending counter at required,
\* every client awake with its links
InitSignalPeriod ==
  /\ sg_act \in [Downstream -> {StartActivation(r) : r \in 1..MaxPending}]
  /\ sg_up \in {[u \in Upstream |-> AwakeClient(g[u])] :
                  g \in [Upstream -> UNION {LinkArraysOf(m) : m \in 1..MaxLinks}]}

(***************************************************************************)
(* The buffers of one mix: buffers[MAX_BUFFERS], n_buffers and the queue   *)
(* of the buffers that can be handed out.                                  *)
(***************************************************************************)
BufferIds == 0..(MAX_BUFFERS - 1)

\* a struct mix of a zeroed pool, as init_port_pool and ensure_mix leave
\* it: no flag set, no memory, the queue empty
ZeroMix(direction) ==
  [direction |-> direction, n_buffers |-> 0,
   buffers |-> [i \in BufferIds |-> [id |-> 0, out |-> FALSE, n_mem |-> 0]],
   queue |-> <<>>]

\* dequeue_buffer: none on an empty queue, else the first buffer leaves the
\* queue and gets BUFFER_FLAG_OUT
dequeue_buffer(mix) ==
  IF mix.queue = <<>> THEN [mix |-> mix, b |-> NOBUFFER]
  ELSE LET b == Head(mix.queue)
       IN [mix |-> [mix EXCEPT !.queue = Tail(@), !.buffers[b].out = TRUE],
           b |-> b]

\* reuse_buffer: a buffer with BUFFER_FLAG_OUT goes to the end of the queue
\* and loses the flag; any other buffer is left alone
reuse_buffer(mix, id) ==
  IF mix.buffers[id].out
    THEN [mix EXCEPT !.queue = Append(@, id), !.buffers[id].out = FALSE]
    ELSE mix

\* clear_buffers: the memory of the first n_buffers buffers is unmapped,
\* n_buffers is 0 and the queue is empty; id and flags stay as they were
clear_buffers(mix) ==
  [mix EXCEPT
     !.buffers = [i \in BufferIds |->
                    IF i < mix.n_buffers THEN [mix.buffers[i] EXCEPT !.n_mem = 0]
                    ELSE mix.buffers[i]],
     !.n_buffers = 0,
     !.queue = <<>>]

\* `if (res < 0)` of line 1619, with res declared uint32_t in line 1498:
\* an unsigned value is never below zero, whatever was stored in it
res_below_zero(res) == FALSE

RECURSIVE use_buffers_from(_, _, _, _, _)
\* the loop of client_node_port_use_buffers from buffer i on: a buffer
\* whose memory does not map is skipped; a buffer whose data (of type
\* MemId) is unknown or does not map ends the call with the error; any
\* other buffer gets its id, BUFFER_FLAG_OUT and, on an output port,
\* reuse_buffer.  After the loop n_buffers is set and res is 0.
use_buffers_from(mix, i, n_buffers, map_ok, data_fail) ==
  IF i >= n_buffers
    THEN [mix |-> [mix EXCEPT !.n_buffers = n_buffers], res |-> "0"]
  ELSE IF ~map_ok[i]
    THEN use_buffers_from(mix, i + 1, n_buffers, map_ok, data_fail)
  ELSE LET b0 == [mix EXCEPT !.buffers[i] = [id |-> i, out |-> FALSE, n_mem |-> 1]]
       IN IF data_fail = i
            THEN [mix |-> b0, res |-> "-ENODEV"]
            ELSE LET b1 == [b0 EXCEPT !.buffers[i].out = TRUE]
                     b2 == IF mix.direction = SPA_DIRECTION_OUTPUT
                             THEN reuse_buffer(b1, i) ELSE b1
                 IN use_buffers_from(b2, i + 1, n_buffers, map_ok, data_fail)

\* client_node_port_use_buffers on the mix: pre is "invalid" for a port
\* that is not valid, "nomix" when ensure_mix finds no mix; else the old
\* buffers are cleared and the new ones taken.  reported says whether
\* pw_proxy_error was called.
mix_use_buffers(mix, pre, n_buffers, map_ok, data_fail) ==
  LET r == IF pre = "invalid" THEN [mix |-> mix, res |-> "-EINVAL"]
           ELSE IF pre = "nomix" THEN [mix |-> mix, res |-> "-ENOMEM"]
           ELSE use_buffers_from(clear_buffers(mix), 0, n_buffers, map_ok,
                                 data_fail)
  IN [mix |-> r.mix, res |-> r.res, reported |-> res_below_zero(r.res)]

\* get_buffer_output on the mix of an output port: nothing without buffers;
\* a warning when no buffer can be dequeued; else the buffer is dequeued
\* and put back at once, and its id is the buffer_id of the port
get_buffer_output(mix) ==
  IF mix.n_buffers = 0 THEN [mix |-> mix, id |-> NOBUFFER, warn |-> FALSE]
  ELSE LET d == dequeue_buffer(mix)
       IN IF d.b = NOBUFFER THEN [mix |-> mix, id |-> NOBUFFER, warn |-> TRUE]
          ELSE [mix |-> reuse_buffer(d.mix, d.b), id |-> d.mix.buffers[d.b].id,
                warn |-> FALSE]

BqLast(op, res, id, warn, reported, arg) ==
  [op |-> op, res |-> res, id |-> id, warn |-> warn, reported |-> reported,
   arg |-> arg]

NotHanded == [ids |-> <<>>, broken |-> TRUE]

BqStep(mix, last, handed) ==
  /\ bq_calls < MaxBufferCalls
  /\ bq_calls' = bq_calls + 1
  /\ bq' = mix
  /\ bq_last' = last
  /\ bq_handed' = handed

\* what the arguments of a call say about its buffers: whether the memory
\* of each maps and which data, if any, fails
BqUseBuffers ==
  \E pre \in {"ok", "invalid", "nomix"} : \E n_buffers \in 0..MAX_BUFFERS :
    \E map_ok \in [BufferIds -> BOOLEAN] : \E data_fail \in {NOBUFFER} \cup BufferIds :
      /\ pre # "ok" => n_buffers = MAX_BUFFERS
      /\ \A i \in BufferIds : i >= n_buffers \/ pre # "ok" => map_ok[i]
      /\ data_fail # NOBUFFER => pre = "ok" /\ data_fail < n_buffers /\ map_ok[data_fail]
      /\ LET r == mix_use_buffers(bq, pre, n_buffers, map_ok, data_fail)
         IN BqStep(r.mix,
                   BqLast("use_buffers", r.res, NOBUFFER, FALSE, r.reported,
                          IF pre # "ok" THEN 0
                          ELSE IF data_fail # NOBUFFER THEN 2
                          ELSE IF \E i \in BufferIds : ~map_ok[i] THEN 1 ELSE 0),
                   IF pre = "ok" THEN [ids |-> <<>>, broken |-> r.res # "0"]
                   ELSE bq_handed)

\* port_set_format without a format: clear_buffers
BqClear ==
  BqStep(clear_buffers(bq), BqLast("clear_buffers", "0", NOBUFFER, FALSE, FALSE, 0),
         NotHanded)

BqDequeue ==
  LET d == dequeue_buffer(bq)
  IN BqStep(d.mix, BqLast("dequeue_buffer", "0", d.b, FALSE, FALSE, 0), NotHanded)

BqReuse ==
  \E id \in BufferIds :
    /\ id < bq.n_buffers
    /\ BqStep(reuse_buffer(bq, id),
              BqLast("reuse_buffer", "0", id, FALSE, FALSE, 0), NotHanded)

BqGetBufferOutput ==
  /\ bq.direction = SPA_DIRECTION_OUTPUT
  /\ LET r == get_buffer_output(bq)
     IN BqStep(r.mix, BqLast("get_buffer_output", "0", r.id, r.warn, FALSE, 0),
               IF bq.n_buffers = 0 THEN bq_handed
               ELSE [bq_handed EXCEPT !.ids = Append(@, r.id)])

InitBuffersAt(directions) ==
  /\ bq \in {ZeroMix(d) : d \in directions}
  /\ bq_last = BqLast("none", "0", NOBUFFER, FALSE, FALSE, 0)
  /\ bq_calls = 0
  /\ bq_handed = NotHanded

InitBuffersIdle == InitBuffersAt({SPA_DIRECTION_INPUT})

NextBuffers ==
  /\ UNCHANGED <<tbVars, midiVars, poolVars, engineVars, posVars, audioVars,
                 signalVars, registryVars, lockVars, syncVars, repositionVars>>
  /\ \/ BqUseBuffers
     \/ BqClear
     \/ BqDequeue
     \/ BqReuse
     \/ BqGetBufferOutput

(***************************************************************************)
(* The registry: the objects of the globals the server announces and       *)
(* c->context.globals, the map from their ids to the objects.  The client  *)
(* has every registration hook set.  Without a node id (SpecRegistry) it   *)
(* has no port of its own; with one (SpecOwnPorts) the application         *)
(* registers and unregisters ports and the server announces them.          *)
(* o->port.name is kept in names: OwnName(name) for "c->name:name",        *)
(* NodeName(n, name) for the name made of the name of node n, "str/n".     *)
(***************************************************************************)
PW_TYPE_INTERFACE_Node == "PW_TYPE_INTERFACE_Node"
PW_TYPE_INTERFACE_Link == "PW_TYPE_INTERFACE_Link"
GlobalIds == 0..MaxGlobalId
PortNames == {"a", "b"}
\* the objects a run can allocate
NameSlots == 1..(ObjectChunk * (MaxRegistryCalls + 1))
NoName == <<"", 0 - 1, "">>
OwnName(name) == <<"client", 0 - 1, name>>
NodeName(n, name) == <<"node", n, name>>

\* pw_map_get_size
pw_map_get_size(map) == Len(map)

\* pw_map_lookup: the data of an id below the size, else NULL; the model
\* keeps NULL as 0 in the map
pw_map_lookup(map, id) == IF id < Len(map) THEN map[id + 1] ELSE 0

\* pw_map_insert_at: the item with the id is overwritten, the id equal to
\* the size is appended, a larger id is refused
pw_map_insert_at(map, id, data) ==
  IF id < Len(map) THEN [map EXCEPT ![id + 1] = data]
  ELSE IF id = Len(map) THEN Append(map, data)
  ELSE map

\* a map insert that first fills the map up to the id
RECURSIVE insert_padded(_, _, _)
insert_padded(map, id, data) ==
  IF id > pw_map_get_size(map)
    THEN insert_padded(pw_map_insert_at(map, pw_map_get_size(map), 0), id, data)
    ELSE pw_map_insert_at(map, id, data)

\* c->context after jack_client_open
EmptyRegistry ==
  [globals |-> <<>>, objects |-> <<>>, free_objects |-> <<>>,
   nodes |-> <<>>, context_ports |-> <<>>, links |-> <<>>,
   node_id |-> SPA_ID_INVALID, names |-> [o \in NameSlots |-> NoName]]

\* find_port: the first object of c->context.ports with that name, 0 for NULL
find_port(c, name) ==
  LET found == SelectSeq(c.context_ports, LAMBDA o : c.names[o] = name)
  IN IF found = <<>> THEN 0 ELSE Head(found)

\* free_object of an object of any of the three lists
free_global(c, o) ==
  free_object([c EXCEPT !.nodes = Without(@, o), !.links = Without(@, o)], o)

\* the properties of an add event: the type, and for a port whether the
\* format is a known port type, whether node.id and port.name are given and
\* the node id; for a link whether the output and the input port are given
GlobalProps ==
  [type : {PW_TYPE_INTERFACE_Node, PW_TYPE_INTERFACE_Port, PW_TYPE_INTERFACE_Link,
           "other"},
   format_ok : BOOLEAN, has_node_id : BOOLEAN, node_id : GlobalIds,
   has_name : BOOLEAN, has_src : BOOLEAN, has_dst : BOOLEAN,
   name : PortNames \cup {"x"}, flags : {JackPortIsInput, JackPortIsOutput}]

\* registry_event_global with properties: the context after the event,
\* whether the event was dropped, and the hooks invoked
registry_event_global(c, id, props) ==
  LET a == alloc_object(c)
      o == a.o
      dropped(cc) == [c |-> cc, dropped |-> TRUE, log |-> <<>>]
      added(cc, hook) ==
        [c |-> [cc EXCEPT !.objects[o].type = props.type,
                          !.objects[o].id = id,
                          !.globals = insert_padded(@, id, o)],
         dropped |-> FALSE, log |-> <<Event(hook, id)>>]
  IN IF props.type = PW_TYPE_INTERFACE_Node
       THEN added([a.c EXCEPT !.nodes = Append(@, o)], "registration")
     ELSE IF props.type = PW_TYPE_INTERFACE_Port
       THEN IF ~props.format_ok \/ ~props.has_node_id \/ ~props.has_name
              THEN dropped(c)
            ELSE LET ot == pw_map_lookup(c.globals, props.node_id)
                     ours == IF props.node_id = c.node_id
                               THEN find_port(c, OwnName(props.name)) ELSE 0
                 IN IF ours # 0
                      THEN [c |-> [c EXCEPT !.objects[ours].flags = props.flags,
                                            !.objects[ours].type = props.type,
                                            !.objects[ours].id = id,
                                            !.globals = insert_padded(@, id, ours)],
                            dropped |-> FALSE,
                            log |-> <<Event("portregistration", id)>>]
                    ELSE IF ot = 0 \/ c.objects[ot].type # PW_TYPE_INTERFACE_Node
                      THEN dropped(free_global([a.c EXCEPT !.context_ports =
                                                             Append(@, o)], o))
                      ELSE added([a.c EXCEPT !.context_ports = Append(@, o),
                                             !.names[o] = NodeName(props.node_id, props.name),
                                             !.objects[o].port_id = SPA_ID_INVALID,
                                             !.objects[o].flags = props.flags],
                                 "portregistration")
     ELSE IF props.type = PW_TYPE_INTERFACE_Link
       THEN IF ~props.has_src \/ ~props.has_dst
              THEN dropped(free_global([a.c EXCEPT !.links = Append(@, o)], o))
              ELSE added([a.c EXCEPT !.links = Append(@, o)], "connect")
     ELSE dropped(c)

\* registry_event_global_remove: nothing for an id the map has no object
\* for; else the hook of the type of the object and free_object, the map
\* keeps the object
registry_event_global_remove(c, id) ==
  LET o == pw_map_lookup(c.globals, id)
  IN IF o = 0 THEN [c |-> c, dropped |-> TRUE, log |-> <<>>]
     ELSE [c |-> free_global(c, o), dropped |-> FALSE,
           log |-> <<Event(IF c.objects[o].type = PW_TYPE_INTERFACE_Node
                             THEN "unregistration"
                           ELSE IF c.objects[o].type = PW_TYPE_INTERFACE_Port
                             THEN "portunregistration"
                           ELSE "disconnect", c.objects[o].id)>>]

\* history: the type each id is announced with to the client, "" for an
\* id that was removed, was never announced or whose event was dropped
NoneAnnounced == [id \in GlobalIds |-> ""]
Announced(op, id, r) ==
  [rg_last.announced EXCEPT
     ![id] = IF op = "global" /\ ~r.dropped
               THEN r.c.objects[pw_map_lookup(r.c.globals, id)].type ELSE ""]

RgStep(op, id, r) ==
  /\ rg_calls < MaxRegistryCalls
  /\ rg_calls' = rg_calls + 1
  /\ rg' = r.c
  /\ rg_last' = [op |-> op, id |-> id, dropped |-> r.dropped, log |-> r.log,
                 announced |-> Announced(op, id, r)]

\* the properties that differ in what the event reads of them
AnnouncedProps ==
  {props \in GlobalProps :
     /\ props.type # PW_TYPE_INTERFACE_Port =>
          props.format_ok /\ props.has_node_id /\ props.has_name /\ props.node_id = 0
     /\ props.type # PW_TYPE_INTERFACE_Link => props.has_src /\ props.has_dst
     /\ ~props.has_node_id => props.node_id = 0
     /\ props.name = "x" /\ props.flags = JackPortIsInput}

RgGlobal ==
  /\ rg_calls < MaxRegistryCalls
  /\ \E id \in GlobalIds : \E props \in AnnouncedProps :
       RgStep("global", id, registry_event_global(rg, id, props))

RgGlobalRemove ==
  \E id \in GlobalIds :
    RgStep("global_remove", id, registry_event_global_remove(rg, id))

\* the server announces the port in slot <<d, p>> of the client under id
RgGlobalOwn ==
  \E id \in GlobalIds : \E d \in Directions : \E p \in PortIds :
    /\ rg.node_id # SPA_ID_INVALID /\ id # rg.node_id
    /\ rg.port_pool[d][p].valid
    /\ LET o == rg.port_pool[d][p].object
           props == [type |-> PW_TYPE_INTERFACE_Port, format_ok |-> TRUE,
                     has_node_id |-> TRUE, node_id |-> rg.node_id,
                     has_name |-> TRUE, has_src |-> TRUE, has_dst |-> TRUE,
                     name |-> rg.names[o][3],
                     flags |-> IF d = SPA_DIRECTION_INPUT THEN JackPortIsInput
                               ELSE JackPortIsOutput]
           r == registry_event_global(rg, id, props)
       IN /\ rg_calls < MaxRegistryCalls
          /\ rg_calls' = rg_calls + 1
          /\ rg' = r.c
          /\ rg_last' = [op |-> "global", id |-> id, dropped |-> r.dropped,
                         log |-> r.log, object |-> o,
                         announced |-> Announced("global", id, r)]

\* jack_port_register of a port with that name and direction whose
\* rendezvous with the server succeeds; the handle returned is the object
RgPortRegister ==
  \E name \in PortNames : \E flags \in {JackPortIsInput, JackPortIsOutput} :
    LET d == GET_DIRECTION(flags)
        a == alloc_port(rg, d)
        o == a.c.port_pool[d][a.p].object
    IN /\ rg.node_id # SPA_ID_INVALID
       /\ rg_calls < MaxRegistryCalls
       /\ rg_calls' = rg_calls + 1
       /\ IF a.p = NULLPTR
            THEN /\ rg' = a.c
                 /\ rg_last' = [op |-> "jack_port_register", id |-> 0,
                                dropped |-> FALSE, log |-> <<>>, object |-> 0,
                                announced |-> rg_last.announced]
            ELSE /\ rg' = [a.c EXCEPT !.objects[o].flags = flags,
                                      !.names[o] = OwnName(name)]
                 /\ rg_last' = [op |-> "jack_port_register", id |-> 0,
                                dropped |-> FALSE, log |-> <<>>, object |-> o,
                                announced |-> rg_last.announced]

\* jack_port_unregister with the handle of a registered port
RgPortUnregister ==
  \E d \in Directions : \E p \in PortIds :
    /\ rg.node_id # SPA_ID_INVALID
    /\ rg.port_pool[d][p].valid
    /\ LET o == rg.port_pool[d][p].object
           obj == rg.objects[o]
       IN /\ obj.type = PW_TYPE_INTERFACE_Port /\ obj.port_id # SPA_ID_INVALID
          /\ rg_calls < MaxRegistryCalls
          /\ rg_calls' = rg_calls + 1
          /\ rg' = free_port(rg, GET_DIRECTION(obj.flags), obj.port_id)
          /\ rg_last' = [op |-> "jack_port_unregister", id |-> 0,
                         dropped |-> FALSE, log |-> <<>>, object |-> o,
                         announced |-> rg_last.announced]

\* the node id the server gave the client
OwnNodeId == 0

\* the context of a client with a node and no port
InitOwnPorts ==
  /\ rg = [EmptyRegistry EXCEPT !.node_id = OwnNodeId] @@ init_port_pool
  /\ rg_last = [op |-> "none", id |-> 0, dropped |-> FALSE, log |-> <<>>,
                announced |-> NoneAnnounced]
  /\ rg_calls = 0

NextOwnPorts ==
  /\ UNCHANGED <<tbVars, midiVars, poolVars, engineVars, posVars, audioVars,
                 signalVars, bufferVars, lockVars, syncVars, repositionVars>>
  /\ \/ RgGlobal
     \/ RgGlobalRemove
     \/ RgGlobalOwn
     \/ RgPortRegister
     \/ RgPortUnregister

InitRegistry ==
  /\ rg = EmptyRegistry
  /\ rg_last = [op |-> "none", id |-> 0, dropped |-> FALSE, log |-> <<>>,
                announced |-> NoneAnnounced]
  /\ rg_calls = 0

NextRegistry ==
  /\ UNCHANGED <<tbVars, midiVars, poolVars, engineVars, posVars, audioVars,
                 signalVars, bufferVars, lockVars, syncVars, repositionVars>>
  /\ (RgGlobal \/ RgGlobalRemove)

(***************************************************************************)
(* The thread-loop lock.  Two threads: "app", the thread of the            *)
(* application inside jack_port_register or jack_port_unregister, and      *)
(* "loop", the thread of the loop, which dispatches the handlers of the    *)
(* protocol with the lock held.  A step is a statement of the code that    *)
(* takes or releases the lock or that enters or leaves a call that changes *)
(* the object lists, the port pool or the mix pool; lk.mut holds the       *)
(* threads that are inside such a call.                                    *)
(***************************************************************************)
LoopHandlers ==
  {"registry_event_global", "registry_event_global_remove",
   "client_node_port_use_buffers", "client_node_port_set_io", "on_sync_reply"}

\* pw_thread_loop_lock by thread t: the lock is free
pw_thread_loop_lock(l, t) == [l EXCEPT !.owner = t]

\* pw_thread_loop_unlock
pw_thread_loop_unlock(l) == [l EXCEPT !.owner = "none"]

\* thread t enters / leaves a call that changes the lists or the pools
enter_mutation(l, t) == [l EXCEPT !.mut = @ \cup {t}]
leave_mutation(l, t) == [l EXCEPT !.mut = @ \ {t}]

LkCount == lk_calls < MaxLockCalls /\ lk_calls' = lk_calls + 1

\* jack_port_register up to the return of alloc_port
LkRegisterAllocPort ==
  /\ lk.app = "idle" /\ LkCount
  /\ lk' = [enter_mutation(lk, "app") EXCEPT !.app = "alloc_port",
                                              !.app_op = "jack_port_register"]

\* alloc_port returns; the port info and the params are built
LkRegisterAllocated ==
  /\ lk.app = "alloc_port"
  /\ lk' = [leave_mutation(lk, "app") EXCEPT !.app = "lock"]
  /\ UNCHANGED lk_calls

\* jack_port_unregister up to pw_thread_loop_lock
LkUnregister ==
  /\ lk.app = "idle" /\ LkCount
  /\ lk' = [lk EXCEPT !.app = "lock", !.app_op = "jack_port_unregister"]

\* pw_thread_loop_lock of the public call; jack_port_unregister goes on
\* into free_port
LkAppLock ==
  /\ lk.app = "lock" /\ lk.owner = "none"
  /\ lk' = IF lk.app_op = "jack_port_unregister"
             THEN [enter_mutation(pw_thread_loop_lock(lk, "app"), "app")
                     EXCEPT !.app = "free_port"]
             ELSE [pw_thread_loop_lock(lk, "app") EXCEPT !.app = "port_update"]
  /\ UNCHANGED lk_calls

\* free_port returns
LkUnregisterFreed ==
  /\ lk.app = "free_port"
  /\ lk' = [leave_mutation(lk, "app") EXCEPT !.app = "port_update"]
  /\ UNCHANGED lk_calls

\* port_update and do_sync: pw_thread_loop_wait releases the lock
LkAppWait ==
  /\ lk.app = "port_update"
  /\ lk' = [pw_thread_loop_unlock(lk) EXCEPT !.app = "wait", !.signalled = FALSE]
  /\ UNCHANGED lk_calls

\* pw_thread_loop_wait returns with the lock after the signal
LkAppWoken ==
  /\ lk.app = "wait" /\ lk.signalled /\ lk.owner = "none"
  /\ lk' = [pw_thread_loop_lock(lk, "app") EXCEPT !.app = "unlock"]
  /\ UNCHANGED lk_calls

\* pw_thread_loop_unlock and the return of the public call
LkAppUnlock ==
  /\ lk.app = "unlock"
  /\ lk' = [pw_thread_loop_unlock(lk) EXCEPT !.app = "idle", !.app_op = "none"]
  /\ UNCHANGED lk_calls

\* the loop thread takes the lock and enters a handler: alloc_object in
\* registry_event_global, ensure_mix in the two handlers of a port, the
\* lookup in registry_event_global_remove, the signal in on_sync_reply
LkDispatch ==
  \E h \in LoopHandlers :
    /\ lk.loop = "poll" /\ lk.owner = "none" /\ LkCount
    /\ h = "on_sync_reply" => lk.app = "wait"
    /\ lk' = LET l == [pw_thread_loop_lock(lk, "loop") EXCEPT !.loop_op = h]
             IN IF h = "registry_event_global"
                  THEN [enter_mutation(l, "loop") EXCEPT !.loop = "alloc_object"]
                ELSE IF h = "registry_event_global_remove"
                  THEN [l EXCEPT !.loop = "unlock"]
                ELSE IF h = "on_sync_reply"
                  THEN [l EXCEPT !.loop = "return", !.signalled = TRUE]
                ELSE [enter_mutation(l, "loop") EXCEPT !.loop = "ensure_mix"]

\* alloc_object, ensure_mix or free_object returns in the handler
LkHandlerMutated ==
  /\ lk.loop \in {"alloc_object", "ensure_mix", "free_object"}
  /\ lk' = [leave_mutation(lk, "loop") EXCEPT
              !.loop = IF lk.loop = "alloc_object" THEN "unlock" ELSE "return"]
  /\ UNCHANGED lk_calls

\* pw_thread_loop_unlock before the hooks of the application
LkHandlerUnlock ==
  /\ lk.loop = "unlock"
  /\ lk' = [pw_thread_loop_unlock(lk) EXCEPT !.loop = "callback"]
  /\ UNCHANGED lk_calls

\* pw_thread_loop_lock after the hooks; registry_event_global_remove goes
\* on into free_object
LkHandlerRelock ==
  /\ lk.loop = "callback" /\ lk.owner = "none"
  /\ lk' = IF lk.loop_op = "registry_event_global_remove"
             THEN [enter_mutation(pw_thread_loop_lock(lk, "loop"), "loop")
                     EXCEPT !.loop = "free_object"]
             ELSE [pw_thread_loop_lock(lk, "loop") EXCEPT !.loop = "return"]
  /\ UNCHANGED lk_calls

\* the handler returns and the loop thread releases the lock to poll
LkHandlerReturn ==
  /\ lk.loop = "return"
  /\ lk' = [pw_thread_loop_unlock(lk) EXCEPT !.loop = "poll", !.loop_op = "none"]
  /\ UNCHANGED lk_calls

InitLock ==
  /\ lk = [owner |-> "none", app |-> "idle", app_op |-> "none", loop |-> "poll",
           loop_op |-> "none", mut |-> {}, signalled |-> FALSE]
  /\ lk_calls = 0

NextLock ==
  /\ UNCHANGED <<tbVars, midiVars, poolVars, engineVars, posVars, audioVars,
                 signalVars, bufferVars, registryVars, syncVars, repositionVars>>
  /\ \/ LkRegisterAllocPort \/ LkRegisterAllocated \/ LkUnregister
     \/ LkAppLock \/ LkUnregisterFreed \/ LkAppWait \/ LkAppWoken \/ LkAppUnlock
     \/ LkDispatch \/ LkHandlerMutated \/ LkHandlerUnlock \/ LkHandlerRelock
     \/ LkHandlerReturn

(***************************************************************************)
(* The rendezvous with the server: do_sync of a public call on the thread  *)
(* of the application, and on_sync_reply and on_state_changed on the loop  *)
(* thread.  pw_thread_loop_wait returns after a signal of the loop thread. *)
(***************************************************************************)

\* pw_thread_loop_signal(loop, false): a thread in pw_thread_loop_wait wakes
pw_thread_loop_signal(s) ==
  [s EXCEPT !.pc = IF s.pc = "wait" THEN "woken" ELSE s.pc]

\* do_sync up to pw_thread_loop_wait: pw_proxy_sync sends the request with
\* a new sequence number
SyCall ==
  /\ sy.pc = "idle" /\ sy.calls < MaxSyncCalls
  /\ sy' = [sy EXCEPT !.pc = "wait", !.seq = sy.next_seq, !.next_seq = @ + 1,
                      !.pending = @ \cup {sy.next_seq}, !.res = "none",
                      !.calls = @ + 1]

\* on_sync_reply: the done event of the core for a request that was sent;
\* id is the object it is for, only id 0 is the reply of do_sync
SyReply ==
  \E id \in {0, 1} : \E seq \in sy.pending :
    /\ sy.state = PW_REMOTE_STATE_CONNECTED
    /\ sy' = IF id # 0 THEN [sy EXCEPT !.others = @ + 1]
             ELSE pw_thread_loop_signal([sy EXCEPT !.last_sync = seq,
                                                   !.pending = @ \ {seq}])
    /\ id # 0 => sy.others < 1

\* on_state_changed of the remote: the error state sets error; the error,
\* the unconnected and the connected state signal
SyState ==
  \E state \in NextStates(sy.state) :
    sy' = pw_thread_loop_signal(
            [sy EXCEPT !.state = state,
                       !.error = @ \/ state = PW_REMOTE_STATE_ERROR])

\* do_sync after pw_thread_loop_wait: -1 with error set, 0 with the reply
\* of the request, else the wait again
SyWake ==
  /\ sy.pc = "woken"
  /\ sy' = IF sy.error THEN [sy EXCEPT !.pc = "idle", !.res = "-1"]
           ELSE IF sy.last_sync = sy.seq THEN [sy EXCEPT !.pc = "idle", !.res = "0"]
           ELSE [sy EXCEPT !.pc = "wait"]

InitSync ==
  sy = [pc |-> "idle", seq |-> 0, next_seq |-> 1, last_sync |-> 0, pending |-> {},
        error |-> FALSE, state |-> PW_REMOTE_STATE_CONNECTED, res |-> "none",
        others |-> 0, calls |-> 0]

NextSync ==
  /\ UNCHANGED <<tbVars, midiVars, poolVars, engineVars, posVars, audioVars,
                 signalVars, bufferVars, registryVars, lockVars, repositionVars>>
  /\ (SyCall \/ SyReply \/ SyState \/ SyWake)

(***************************************************************************)
(* Reposition requests.  Every client writes its request into the          *)
(* reposition segment of its own activation record and then its node id    *)
(* into reposition_owner of the driver's record; the records are shared    *)
(* memory, so the statements of the clients interleave.                    *)
(***************************************************************************)
JackPositionTimecode == "JackPositionTimecode"
RepositionFrames == {3, 7}
RepositionValid ==
  {{}, {JackPositionBBT}, {JackPositionBBT, JackPositionTimecode},
   {JackBBTFrameOffset}, {JackPositionBBT, JackBBTFrameOffset}}

\* na->reposition of a mapped activation record nobody wrote to
ZeroSegment == [flags |-> 0, start |-> 0, duration |-> 0, position |-> 0, rate |-> 0]

\* a body that stores the owner before it writes the request
reposition_owner_first(k) ==
  CASE k = 1 -> "owner" [] k = 2 -> "flags" [] k = 3 -> "start"
    [] k = 4 -> "duration" [] k = 5 -> "position" [] k = 6 -> "rate"

\* the k-th statement of jack_transport_reposition after its checks
reposition_statement(k) ==
  CASE k = 1 -> "flags" [] k = 2 -> "start" [] k = 3 -> "duration"
    [] k = 4 -> "position" [] k = 5 -> "rate" [] k = 6 -> "owner"

\* jack_transport_reposition up to its checks: -EIO without the driver's or
\* the client's own activation record, -EINVAL for valid bits other than
\* BBT and Timecode; jack_transport_locate is the call with no valid bits
RpCall(c, frame, valid) ==
  /\ rp.pc[c] = 0 /\ rp.calls < MaxRepositionCalls
  /\ IF ~rp.driver_activation[c] \/ ~rp.activation[c]
       THEN /\ rp' = [rp EXCEPT !.calls = @ + 1, !.valid[c] = valid]
            /\ rp_last' = [c |-> c, ret |-> "-EIO", n |-> rp.calls + 1]
       ELSE IF valid \ {JackPositionBBT, JackPositionTimecode} # {}
         THEN /\ rp' = [rp EXCEPT !.calls = @ + 1, !.valid[c] = valid]
              /\ rp_last' = [c |-> c, ret |-> "-EINVAL", n |-> rp.calls + 1]
         ELSE /\ rp' = [rp EXCEPT !.calls = @ + 1, !.pc[c] = 1, !.frame[c] = frame, !.valid[c] = valid,
                                  !.asked[c] = @ \cup {frame}]
              /\ UNCHANGED rp_last

\* one statement of the body: a field of na->reposition, or the
\* ATOMIC_STORE of the node id and the return of 0
RpStatement(c) ==
  /\ rp.pc[c] \in 1..6
  /\ LET st == reposition_statement(rp.pc[c])
         next == IF rp.pc[c] = 6 THEN 0 ELSE rp.pc[c] + 1
         r == [rp EXCEPT !.pc[c] = next]
     IN rp' = CASE st = "flags" -> [r EXCEPT !.reposition[c].flags = 0]
                [] st = "start" -> [r EXCEPT !.reposition[c].start = 0]
                [] st = "duration" -> [r EXCEPT !.reposition[c].duration = 0]
                [] st = "position" -> [r EXCEPT !.reposition[c].position = rp.frame[c]]
                [] st = "rate" -> [r EXCEPT !.reposition[c].rate = 1]
                [] st = "owner" -> [r EXCEPT !.reposition_owner = c]
  /\ rp_last' = IF rp.pc[c] = 6 THEN [c |-> c, ret |-> "0", n |-> rp.calls]
                ELSE rp_last

\* update_driver_activation between the calls of c: the driver's record
\* becomes known or unknown to c
RpDriverActivation(c) ==
  /\ rp.pc[c] = 0
  /\ rp' = [rp EXCEPT !.driver_activation[c] = ~@]
  /\ UNCHANGED rp_last

InitReposition ==
  /\ rp = [reposition_owner |-> 0, state |-> SPA_IO_POSITION_STATE_STOPPED,
           reposition |-> [c \in Clients |-> ZeroSegment],
           pc |-> [c \in Clients |-> 0], frame |-> [c \in Clients |-> 0],
           asked |-> [c \in Clients |-> {}], valid |-> [c \in Clients |-> {}],
           driver_activation |-> [c \in Clients |-> TRUE],
           activation |-> [c \in Clients |-> TRUE], calls |-> 0]
  /\ rp_last = [c |-> 0, ret |-> "none", n |-> 0]

NextReposition ==
  /\ UNCHANGED <<tbVars, midiVars, poolVars, engineVars, posVars, audioVars,
                 signalVars, bufferVars, registryVars, lockVars, syncVars>>
  /\ \E c \in Clients :
       \/ \E frame \in RepositionFrames : \E valid \in RepositionValid :
            RpCall(c, frame, valid)
       \/ RpStatement(c)
       \/ RpDriverActivation(c)

\* the subsystems after the buffers, with nothing in them
InitRest == InitRegistry /\ InitLock /\ InitSync /\ InitReposition

\* the subsystems after this one, with nothing in them
InitIdle == InitSignalIdle /\ InitBuffersIdle /\ InitRest

NextSignal ==
  /\ UNCHANGED <<tbVars, midiVars, poolVars, engineVars, posVars, audioVars,
                 bufferVars, registryVars, lockVars, syncVars, repositionVars>>
  /\ \E u \in Upstream :
       \/ sync_finished(u)
       \/ sync_link(u)
       \/ \E write_ok \in BOOLEAN : sync_trigger(u, write_ok)

\* the engine from the client records on, with the position record of a
\* client that was opened
InitEngineAt(clients) ==
  InitRt(clients) /\ InitPosAt({<<0, 0>>}) /\ InitAudioAt({AudioPort})
  /\ InitIdle

\* the running engine: the events of the server and the wakes
NextCycle ==
  /\ UNCHANGED <<tbVars, midiVars, poolVars, posVars, audioVars, signalVars, bufferVars, registryVars, lockVars, syncVars, repositionVars>>
  /\ rt_calls < MaxCycleCalls
  /\ (RtServer \/ RtCommand \/ RtWake)

\* the engine under the calls of the application: the commands of the
\* server, the state changes of the remote, the calls and the wakes
NextLife ==
  /\ UNCHANGED <<tbVars, midiVars, poolVars, posVars, audioVars, signalVars, bufferVars, registryVars, lockVars, syncVars, repositionVars>>
  /\ rt_calls < MaxLifeCalls
  /\ (RtCommand \/ RtRemote \/ RtRegister \/ RtLifecycle \/ RtWake)

\* the engine of a client that was opened and is left alone
InitEngine == InitEngineAt({OpenClient({})})

NextTimebase ==
  /\ UNCHANGED <<midiVars, poolVars, engineVars, posVars, audioVars, signalVars, bufferVars, registryVars, lockVars, syncVars, repositionVars>>
  /\ \E c \in Clients :
       \/ \E found \in BOOLEAN : update_driver_activation(c, found) /\ UNCHANGED tb_entry
       \/ \E conditional \in BOOLEAN : stb_enter(c, conditional) /\ tb_entry' = AtEntry(c)
       \/ stb_try(c) /\ UNCHANGED tb_entry
       \/ stb_set(c) /\ UNCHANGED tb_entry
       \/ \E res \in do_sync_results : stb_sync(c, res) /\ UNCHANGED tb_entry
       \/ jack_release_timebase(c) /\ UNCHANGED tb_entry

\* the election observed through the race history
InitElection == InitTimebase("race") /\ InitMidi /\ InitPool /\ InitEngine
SpecElection == InitElection /\ [][NextTimebase]_vars

\* the election observed through the record of the last call
InitCalls == InitTimebase("calls") /\ InitMidi /\ InitPool /\ InitEngine
SpecCalls == InitCalls /\ [][NextTimebase]_vars

\* the MIDI port buffer under the calls of an application
InitMidiCalls == InitTimebase("none") /\ InitMidi /\ InitPool /\ InitEngine
SpecMidi == InitMidiCalls /\ [][NextMidi]_vars

\* a MIDI input port whose connections hold the sequences of one period
InitMerge ==
  /\ InitTimebase("none")
  /\ InitPortBuffer
  /\ port_mix \in MixListsFrom(1, MaxEvents)
  /\ InitPool /\ InitEngine
SpecMerge == InitMerge /\ [][NextMerge]_vars

\* the MIDI port buffer under the calls of an application, encoded and
\* decoded again at any time
SpecRoundTrip == InitMidiCalls /\ [][NextMidi \/ NextRoundTrip]_vars

\* the port and object pools under jack_port_register and
\* jack_port_unregister
InitPorts == InitTimebase("none") /\ InitMidi /\ InitPool /\ InitEngine
SpecPool == InitPorts /\ [][NextPool]_vars

\* the same with the connections the server makes to the ports
SpecPortMix == InitPorts /\ [][NextPortMix]_vars

\* the client after two calls of jack_port_register for an input port and
\* a connection with id 0 made to each of the two ports
ConnectedPorts ==
  LET RECURSIVE registered(_, _)
      registered(c, n) ==
        IF n = 0 THEN c
        ELSE LET a == alloc_port(c, SPA_DIRECTION_INPUT)
                 o == a.c.port_pool[SPA_DIRECTION_INPUT][a.p].object
             IN registered([a.c EXCEPT !.objects[o].flags = JackPortIsInput], n - 1)
      c2 == registered(init_port_pool, 2)
  IN ensure_mix(ensure_mix(c2, SPA_DIRECTION_INPUT, 0, 0).c,
                SPA_DIRECTION_INPUT, 1, 0).c

\* the pools from two connected ports on
InitConnected ==
  /\ InitTimebase("none") /\ InitMidi /\ InitEngine
  /\ client = ConnectedPorts
  /\ pool_last = [op |-> "none"]
  /\ pool_calls = 0
SpecMixReuse == InitConnected /\ [][NextPortMix]_vars

\* one jack_position_t under position_to_jack calls, clears and a reader:
\* the record of the client, and a record whose markers differ by one
StartMarkers == {<<0, 0>>, <<0, 1>>}
InitPosition ==
  /\ InitTimebase("none") /\ InitMidi /\ InitPool
  /\ InitRt({OpenClient({})}) /\ InitPosAt(StartMarkers)
  /\ InitAudioAt({AudioPort}) /\ InitIdle
SpecPosition == InitPosition /\ [][NextPosition]_vars

\* one audio input port with no, one, two or three connected sources
InitAudio ==
  /\ InitTimebase("none") /\ InitMidi /\ InitPool
  /\ InitRt({OpenClient({})}) /\ InitPosAt({<<0, 0>>})
  /\ InitAudioAt({ConnectedPort(n) : n \in 0..MaxSources}) /\ InitIdle
SpecAudio == InitAudio /\ [][NextAudio]_vars

\* one period of the clients that signal the nodes behind their links
InitSignal ==
  /\ InitTimebase("none") /\ InitMidi /\ InitPool
  /\ InitRt({OpenClient({})}) /\ InitPosAt({<<0, 0>>})
  /\ InitAudioAt({AudioPort}) /\ InitSignalPeriod /\ InitBuffersIdle
  /\ InitRest
SpecSignal == InitSignal /\ [][NextSignal]_vars

\* the buffers of the mix of an input port and of an output port
InitBuffers ==
  /\ InitTimebase("none") /\ InitMidi /\ InitPool
  /\ InitRt({OpenClient({})}) /\ InitPosAt({<<0, 0>>})
  /\ InitAudioAt({AudioPort}) /\ InitSignalIdle
  /\ InitBuffersAt({SPA_DIRECTION_INPUT, SPA_DIRECTION_OUTPUT})
  /\ InitRest
SpecBuffers == InitBuffers /\ [][NextBuffers]_vars

\* the registry events of the server
InitGlobals == InitTimebase("none") /\ InitMidi /\ InitPool /\ InitEngine

SpecRegistry == InitGlobals /\ [][NextRegistry]_vars

\* the ports of the client and the globals of the server
InitAnnounced ==
  /\ InitTimebase("none") /\ InitMidi /\ InitPool
  /\ InitRt({OpenClient({})}) /\ InitPosAt({<<0, 0>>})
  /\ InitAudioAt({AudioPort}) /\ InitSignalIdle /\ InitBuffersIdle
  /\ InitOwnPorts /\ InitLock /\ InitSync /\ InitReposition

SpecOwnPorts == InitAnnounced /\ [][NextOwnPorts]_vars

\* the thread of the application and the loop thread around the lock
InitThreads == InitTimebase("none") /\ InitMidi /\ InitPool /\ InitEngine

SpecLock == InitThreads /\ [][NextLock]_vars

\* the rendezvous of a public call with the server; a thread that was
\* signalled in pw_thread_loop_wait goes on
InitRendezvous == InitTimebase("none") /\ InitMidi /\ InitPool /\ InitEngine

SpecSync == InitRendezvous /\ [][NextSync]_vars

SpecSyncFair == SpecSync /\ WF_vars(SyWake /\ NextSync)

\* the clients of one driver reposition the transport
InitRequests == InitTimebase("none") /\ InitMidi /\ InitPool /\ InitEngine

SpecReposition == InitRequests /\ [][NextReposition]_vars

\* the running cycle engine of a client with its driver linked and its
\* position set, under the events of the server and the wakes of the
\* socket: with no hooks, and with every hook and the process callback
CycleSetups ==
  {Setup({}, TRUE, TRUE, {"activate", "Start"}),
   Setup(Observers, TRUE, TRUE,
         {"timebase", "sync", "process", "activate", "Start"})}
InitCycle ==
  /\ InitTimebase("none") /\ InitMidi /\ InitPool
  /\ InitEngineAt(CycleSetups)
SpecCycle == InitCycle /\ [][NextCycle]_vars

\* the engine of a client that has its transport, its driver and its
\* position, under the calls of the application, the commands of the
\* server, the state changes of the remote and the wakes: with no hooks,
\* with the hooks and a process or a thread callback registered, and
\* with these activated and started
LifeSetups ==
  {Setup({}, TRUE, TRUE, {}),
   Setup(Observers, TRUE, TRUE, {"process"}),
   Setup(Observers, TRUE, TRUE, {"thread"}),
   Setup(Observers, TRUE, TRUE, {"process", "activate", "Start"}),
   Setup(Observers, TRUE, TRUE, {"thread", "activate", "Start"})}
InitLife ==
  /\ InitTimebase("none") /\ InitMidi /\ InitPool
  /\ InitEngineAt(LifeSetups)
SpecLife == InitLife /\ [][NextLife]_vars

(***************************************************************************)
(* C1: when clients with distinct node ids race conditional                *)
(* jack_set_timebase_callback calls on an unowned slot, exactly one of     *)
(* them acquires the slot (the slot holds its id) and every other one gets *)
(* -EBUSY; nobody gets -EBUSY while nobody has acquired, so after the      *)
(* owner's release the next conditional acquire of the slot succeeds.      *)
(***************************************************************************)
C1_ExactlyOneAcquires ==
  race.open =>
    /\ Cardinality(race.acquired) <= 1
    /\ race.acquired \cap race.busy = {}
    /\ race.acquired \cup race.busy \subseteq race.entrants
    /\ race.acquired = {} => segment_owner = 0 /\ race.busy = {}
    /\ \A c \in race.acquired : segment_owner = c
    /\ \A c \in race.busy : segment_owner # c /\ tb_pc[c] \in {"idle", "try"}

\* the loser of a race (-EBUSY) acquires the slot after the winner released it
C1_Witness ==
  /\ race.open
  /\ \E c \in race.acquired : c \in race.prevBusy /\ segment_owner = c

(***************************************************************************)
(* C2: the unconditional path of jack_set_timebase_callback stores the     *)
(* caller's id in the slot whatever the previous owner was;                *)
(* jack_release_timebase resets the slot to unowned and returns 0 only     *)
(* when the slot holds the caller's id, and otherwise returns an error and *)
(* leaves the slot as it was.                                              *)
(***************************************************************************)
C2_StoreAndRelease ==
  /\ tb_last.op = "store" => tb_last.after = tb_last.c
  /\ tb_last.op = "release" =>
       /\ tb_last.ret \in {"0", "-EIO", "-EINVAL"}
       /\ tb_last.ret = "0" => tb_last.before = tb_last.c /\ tb_last.after = 0
       /\ tb_last.ret # "0" => tb_last.after = tb_last.before
       /\ tb_last.ret = "-EINVAL" => tb_last.before # tb_last.c

\* client 2 took the slot from client 1 by an unconditional store, and the
\* release of client 1 then failed and left client 2 the owner
C2_Witness ==
  /\ stolen
  /\ tb_last = [op |-> "release", c |-> 1, before |-> 2, after |-> 2, ret |-> "-EINVAL"]
  /\ timebase_callback[1]
  /\ segment_owner = 2

(***************************************************************************)
(* The MIDI port buffer.                                                   *)
(* FreeSpace is the remaining capacity of the claims: the buffer size      *)
(* minus the struct, the heap and the event headers, the header of the     *)
(* next event included.  It is negative once the next header does not fit. *)
(***************************************************************************)
FreeSpace(mb) == mb.buffer_size - used_size(mb)

\* the call of the step is a reserve or a write
IsReserveStep == midi_last'.op \in {"reserve", "write"} /\ midi_calls' # midi_calls

\* the call fails for its time or for an empty payload
BadTimeOrEmpty(mb, time, data_size) ==
  \/ time >= mb.nframes
  \/ mb.event_count > 0 /\ time < StoredEvents(mb)[mb.event_count].time
  \/ data_size = 0

\* what a failed and a successful reservation do to the buffer
FailedOutcome ==
  /\ ~midi_last'.ok
  /\ port_buffer' = [port_buffer EXCEPT !.lost_events = @ + 1]
SuccessOutcome ==
  /\ midi_last'.ok
  /\ port_buffer'.event_count = port_buffer.event_count + 1
  /\ port_buffer'.lost_events = port_buffer.lost_events

(* C3 (as amended): jack_midi_event_reserve returns no pointer, increments *)
(* lost_events by exactly one and leaves everything else of the buffer     *)
(* unchanged whenever time >= nframes, time is less than the time of the   *)
(* last stored event, data_size is zero, or data_size exceeds the size     *)
(* the buffer accepts: the remaining capacity when that is at least        *)
(* MIDI_INLINE_MAX, MIDI_INLINE_MAX when 0 to 3 bytes remain, and nothing  *)
(* when the next event header does not fit.  In every other case it        *)
(* succeeds, event_count grows by exactly one and lost_events is           *)
(* unchanged.                                                              *)
C3_ReserveOutcome ==
  [][IsReserveStep =>
       LET mb == port_buffer
           accepted == IF FreeSpace(mb) < 0 THEN 0
                       ELSE IF FreeSpace(mb) < MIDI_INLINE_MAX THEN MIDI_INLINE_MAX
                       ELSE FreeSpace(mb)
       IN IF \/ BadTimeOrEmpty(mb, midi_last'.time, midi_last'.size)
             \/ midi_last'.size > accepted
            THEN FailedOutcome
            ELSE SuccessOutcome]_vars

\* a failed reservation after a stored event, and the count unchanged
C3_Witness ==
  /\ midi_last.op = "reserve" /\ ~midi_last.ok
  /\ midi_last.time < port_buffer.nframes /\ midi_last.size = MIDI_INLINE_MAX + 1
  /\ port_buffer.event_count = 1 /\ port_buffer.lost_events = 1
  /\ FreeSpace(port_buffer) < MIDI_INLINE_MAX

(* C3 as stated: the reservation fails whenever data_size exceeds the      *)
(* remaining capacity.                                                     *)
C3_Original ==
  [][IsReserveStep =>
       IF \/ BadTimeOrEmpty(port_buffer, midi_last'.time, midi_last'.size)
          \/ midi_last'.size > FreeSpace(port_buffer)
         THEN FailedOutcome
         ELSE SuccessOutcome]_vars

\* the times a reserve on mb can pass without failing for its time
GoodTimes(mb) ==
  {t \in 0..mb.nframes - 1 :
     mb.event_count = 0 \/ t >= StoredEvents(mb)[mb.event_count].time}

Reserved(mb, time, data_size) ==
  LET r == jack_midi_event_reserve(mb, time, data_size)
  IN /\ r.res # NULLPTR
     /\ r.mb.event_count = mb.event_count + 1
     /\ r.mb.lost_events = mb.lost_events

Refused(mb, time, data_size) ==
  LET r == jack_midi_event_reserve(mb, time, data_size)
  IN /\ r.res = NULLPTR
     /\ r.mb = [mb EXCEPT !.lost_events = @ + 1]

(* C4 (as amended): in every reachable fill state of a port buffer a       *)
(* reserve with time equal to nframes fails and increments lost_events;    *)
(* while at least MIDI_INLINE_MAX bytes remain, a reserve of exactly the   *)
(* remaining capacity succeeds and one of a byte more fails; while 0 to 3  *)
(* bytes remain, every size from 1 to MIDI_INLINE_MAX succeeds and         *)
(* MIDI_INLINE_MAX + 1 fails; once the next header does not fit, every     *)
(* size fails.                                                             *)
C4_Boundary ==
  LET mb == port_buffer IN
  /\ \A n \in 0..MIDI_INLINE_MAX + 1 : Refused(mb, mb.nframes, n)
  /\ \A t \in GoodTimes(mb) :
       /\ FreeSpace(mb) >= MIDI_INLINE_MAX =>
            /\ Reserved(mb, t, FreeSpace(mb))
            /\ Refused(mb, t, FreeSpace(mb) + 1)
       /\ FreeSpace(mb) \in 0..MIDI_INLINE_MAX - 1 =>
            /\ \A n \in 1..MIDI_INLINE_MAX : Reserved(mb, t, n)
            /\ Refused(mb, t, MIDI_INLINE_MAX + 1)
       /\ FreeSpace(mb) < 0 => \A n \in 0..MIDI_INLINE_MAX + 1 : Refused(mb, t, n)

\* a buffer with a stored event just took a heap payload of exactly the
\* remaining capacity: the heap ends where the headers end
C4_Witness ==
  /\ midi_last.op = "reserve" /\ midi_last.ok
  /\ midi_last.size > MIDI_INLINE_MAX
  /\ port_buffer.event_count = 2
  /\ FreeSpace(port_buffer) = 0 - SizeofMidiEvent

(* C4 as stated: in every reachable fill state with capacity remaining, a  *)
(* reserve of exactly the remaining capacity succeeds and one of a byte    *)
(* more fails.                                                             *)
C4_Original ==
  LET mb == port_buffer IN
  \A t \in GoodTimes(mb) :
    FreeSpace(mb) >= 1 =>
      /\ Reserved(mb, t, FreeSpace(mb))
      /\ Refused(mb, t, FreeSpace(mb) + 1)

(* C5: after any sequence of jack_midi_clear_buffer,                       *)
(* jack_midi_event_reserve and jack_midi_event_write calls the stored      *)
(* events are non-decreasing in time in index order, every stored time is  *)
(* less than nframes, and event_count is the number of successful          *)
(* reservations since the last clear.                                      *)
C5_EventList ==
  LET ev == StoredEvents(port_buffer) IN
  /\ \A i \in DOMAIN ev : ev[i].time < port_buffer.nframes
  /\ \A i, j \in DOMAIN ev : i < j => ev[i].time <= ev[j].time
  /\ jack_midi_get_event_count(port_buffer) = midi_reserved

\* an event written, the buffer cleared, an event reserved: the payload of
\* the earlier period is still in the header the new event took
C5_Witness ==
  /\ midi_last.op = "reserve" /\ midi_last.ok
  /\ port_buffer.event_count = 1 /\ midi_reserved = 1
  /\ midi_calls = 3
  /\ StoredEvents(port_buffer)[1].time = 0
  /\ port_buffer.mem[EventOffset(0) + 4] \in PayloadBytes

(***************************************************************************)
(* Decoding the sequences of the connections into the port buffer.         *)
(***************************************************************************)
\* the sequences handed to convert_to_midi
InSeqs == collect_sequences(port_mix)

\* the MIDI controls of the input: <<source index, position>>
InEvents ==
  {e \in (1..Len(InSeqs)) \X (1..MaxEvents) :
     /\ e[2] <= Len(InSeqs[e[1]])
     /\ InSeqs[e[1]][e[2]].type = SPA_CONTROL_Midi}

InControl(e) == InSeqs[e[1]][e[2]]

\* a goes before b in a stable merge: by offset, then by source index, then
\* by position in the source
MergesBefore(a, b) ==
  \/ InControl(a).offset < InControl(b).offset
  \/ /\ InControl(a).offset = InControl(b).offset
     /\ \/ a[1] < b[1]
        \/ a[1] = b[1] /\ a[2] < b[2]

\* the index of e in the merged list
MergedIndex(e) == 1 + Cardinality({x \in InEvents : MergesBefore(x, e)})

\* the events of a port buffer as jack_midi_event_get returns them
ReadEvents(mb) ==
  [n \in 1..jack_midi_get_event_count(mb) |->
     LET ev == jack_midi_event_get(mb, n - 1)
     IN [time |-> ev.time,
         bytes |-> IF EventInBounds(ev) THEN EventBytes(mb, ev) ELSE <<>>]]

\* the one-byte events a port buffer holds at most
InlineCapacity == (MidiBufferSize - SizeofMidiBuffer) \div SizeofMidiEvent

(* C6: convert_to_midi is a stable K-way merge of the incoming sequences:  *)
(* every input MIDI control is written exactly once at its place in the    *)
(* order by (offset, source index, position in the source), so the result  *)
(* is ascending in time, keeps the order of each source and puts equal     *)
(* offsets of different sources in source order; when the buffer is too    *)
(* small for all of them it holds the first ones of that order and the     *)
(* others are counted in lost_events.                                      *)
C6_StableMerge ==
  midi_last.op = "merge" =>
    LET out == ReadEvents(port_buffer) IN
    /\ Len(out) = IF Cardinality(InEvents) <= InlineCapacity
                    THEN Cardinality(InEvents) ELSE InlineCapacity
    /\ port_buffer.lost_events = Cardinality(InEvents) - Len(out)
    /\ \A e \in InEvents :
         MergedIndex(e) <= Len(out) =>
           out[MergedIndex(e)] =
             [time |-> InControl(e).offset, bytes |-> InControl(e).value]
    /\ \A n, m \in DOMAIN out : n < m => out[n].time <= out[m].time

\* three events merged from two sources without loss, two of them with the
\* same offset from different sources, another control type skipped
C6_Witness ==
  /\ midi_last.op = "merge"
  /\ port_buffer.lost_events = 0
  /\ port_buffer.event_count = 3
  /\ \E i \in DOMAIN InSeqs : \E k \in DOMAIN InSeqs[i] :
       InSeqs[i][k].type = SPA_CONTROL_Properties
  /\ \E a, b \in InEvents :
       /\ a[1] < b[1] /\ b[2] > 1
       /\ InControl(a).offset = InControl(b).offset
       /\ MergedIndex(b) = MergedIndex(a) + 1

\* the input of the example: [(t=2,"a")] and [(t=1,"b"),(t=2,"c")], all
\* MIDI controls
C7_Input ==
  /\ Len(InSeqs) = 2
  /\ Len(InSeqs[1]) = 1 /\ Len(InSeqs[2]) = 2
  /\ Cardinality(InEvents) = 3
  /\ InSeqs[1][1].offset = 2
  /\ InSeqs[2][1].offset = 1 /\ InSeqs[2][2].offset = 2

(* C7 (as amended): decoding the sequences [(t=2,"a")] (first) and         *)
(* [(t=1,"b"),(t=2,"c")] (second) into an empty port buffer yields         *)
(* [(1,"b"),(2,"a"),(2,"c")]: of the two events at t=2 the one of the      *)
(* first sequence comes first.                                             *)
C7_MergedExample ==
  midi_last.op = "merge" /\ C7_Input =>
    ReadEvents(port_buffer) =
      <<[time |-> 1, bytes |-> InSeqs[2][1].value],
        [time |-> 2, bytes |-> InSeqs[1][1].value],
        [time |-> 2, bytes |-> InSeqs[2][2].value]>>

C7_Witness ==
  /\ midi_last.op = "merge" /\ C7_Input
  /\ port_buffer.event_count = 3 /\ port_buffer.lost_events = 0

(* C7 as stated: the merged order is [(1,"b"),(2,"c"),(2,"a")].            *)
C7_Original ==
  midi_last.op = "merge" /\ C7_Input =>
    ReadEvents(port_buffer) =
      <<[time |-> 1, bytes |-> InSeqs[2][1].value],
        [time |-> 2, bytes |-> InSeqs[2][2].value],
        [time |-> 2, bytes |-> InSeqs[1][1].value]>>

\* the events of a port buffer: time, size and payload, the payload marked
\* when its pointer is outside the buffer
ReadSized(mb) ==
  [n \in 1..jack_midi_get_event_count(mb) |->
     LET ev == jack_midi_event_get(mb, n - 1)
     IN [time |-> ev.time, size |-> ev.size,
         bytes |-> IF EventInBounds(ev) THEN EventBytes(mb, ev) ELSE <<"outside">>]]

(* C8: encoding a port buffer with convert_from_midi and decoding the      *)
(* sequence with convert_to_midi into a freshly cleared port buffer yields *)
(* the same number of events with identical times, sizes and payload bytes *)
(* in the same order, and no lost events.                                  *)
C8_RoundTrip ==
  midi_copy.made =>
    /\ ~midi_copy.fault
    /\ \A n \in 1..port_buffer.event_count :
         EventInBounds(jack_midi_event_get(port_buffer, n - 1))
    /\ ReadSized(midi_copy.mb) = ReadSized(port_buffer)
    /\ midi_copy.mb.lost_events = 0

(***************************************************************************)
(* The port pool.                                                          *)
(***************************************************************************)
\* how often x occurs in the sequence q
Occurrences(q, x) == Cardinality({k \in DOMAIN q : q[k] = x})

(* C9: over every sequence of alloc_port and free_port calls a port slot   *)
(* is on exactly one of the free list and the in-use list of its           *)
(* direction, once; valid holds exactly for the slots on the in-use list;  *)
(* the valid slots have objects of their own that name them, so no slot is *)
(* valid for two holders; a released slot is back on the free list, where  *)
(* a later alloc_port takes it; alloc_port returns a slot that was not     *)
(* valid, and returns none exactly when the free list of the direction was *)
(* empty.                                                                  *)
C9_PortPool ==
  /\ \A d \in Directions : \A i \in PortIds :
       /\ Occurrences(client.free_ports[d], i) + Occurrences(client.ports[d], i) = 1
       /\ client.port_pool[d][i].valid <=> Occurrences(client.ports[d], i) = 1
       /\ client.port_pool[d][i].valid =>
            /\ client.port_pool[d][i].object \in DOMAIN client.objects
            /\ client.objects[client.port_pool[d][i].object].port_id = i
            /\ Occurrences(client.context_ports, client.port_pool[d][i].object) = 1
            /\ Occurrences(client.free_objects, client.port_pool[d][i].object) = 0
  /\ \A d, e \in Directions : \A i, j \in PortIds :
       /\ client.port_pool[d][i].valid /\ client.port_pool[e][j].valid
       /\ client.port_pool[d][i].object = client.port_pool[e][j].object
       => d = e /\ i = j
  /\ pool_last.op = "jack_port_register" =>
       /\ pool_last.port = NULLPTR <=> pool_last.free_empty
       /\ pool_last.port # NULLPTR =>
            /\ ~pool_last.was_valid
            /\ client.port_pool[pool_last.direction][pool_last.port].valid

\* the last free slot of a direction was taken, a slot that had been
\* released before, while the other slot is held
C9_Witness ==
  /\ pool_last.op = "jack_port_register"
  /\ pool_last.port # NULLPTR /\ pool_last.reused
  /\ client.free_ports[pool_last.direction] = <<>>
  /\ Len(client.ports[pool_last.direction]) = MaxPorts

(* C10: a jack_port_unregister, and the free_port in it, on a port slot    *)
(* that is not valid because it was released before changes nothing in the *)
(* port pool, the mix pool and the object lists, and the slot is on the    *)
(* free list of its direction exactly once.                                *)
C10_DoubleRelease ==
  [][(/\ pool_calls' # pool_calls
      /\ pool_last'.op = "jack_port_unregister"
      /\ pool_last'.port # NULLPTR
      /\ ~pool_last'.was_valid)
     => /\ client' = client
        /\ Occurrences(client'.free_ports[pool_last'.direction], pool_last'.port) = 1
        /\ Occurrences(client'.ports[pool_last'.direction], pool_last'.port) = 0]_vars

\* a port with a connection was released and is released again: its mix is
\* the last of the free mixes
C10_Witness ==
  /\ pool_last.op = "jack_port_unregister"
  /\ pool_last.port # NULLPTR /\ ~pool_last.was_valid
  /\ ~client.fault
  /\ \E m \in MixSlots :
       /\ client.mix_pool[m].port = PortMixHead(pool_last.direction, pool_last.port)
       /\ client.link[FreeMixHead].prev = m
  /\ client.objects[pool_last.object].port_id = pool_last.port

(***************************************************************************)
(* The cycle engine.                                                       *)
(***************************************************************************)
\* the hooks of the application a cycle can invoke
CycleHooks == {"process", "bufsize", "srate", "sync", "xrun", "thread_init",
               "timebase"}
\* the places of the events named in names in a log
EventsIn(log, names) == {k \in DOMAIN log : log[k].ev \in names}
\* this step is a wake of the socket for input
IsWake ==
  /\ rt_calls' # rt_calls
  /\ rt_last'.op = "on_rtsocket_condition" /\ rt_last'.res = "IN"
\* this step is a wake that runs a cycle: no thread callback has the thread
RunsCycle == IsWake /\ "thread" \notin rt.callbacks /\ ~rt.freed

(* C11: a cycle that finds the position pointer missing does not fail, its *)
(* period is zero and it invokes no hook of the application: not the       *)
(* process callback, nor the buffer-size, sample-rate, sync, xrun,         *)
(* thread-init or timebase hook.                                           *)
C11_MissingPosition ==
  [][RunsCycle /\ ~rt.position
     => /\ rt'.fault = "none"
        /\ EventsIn(rt_last'.log, CycleHooks) = {}]_vars

\* the wake just taken ran the process callback once, with the period the
\* cycle observed, after the AWAKE step and before the FINISHED step
ProcessOnceInCycle ==
  LET log == rt_last'.log
  IN \E k \in DOMAIN log :
       /\ EventsIn(log, {"process"}) = {k}
       /\ log[k].arg = rt'.buffer_frames
       /\ \E i \in 1..(k - 1) : log[i].ev = "AWAKE"
       /\ \E j \in (k + 1)..Len(log) : log[j].ev = "FINISHED"

(* C12: a wake never invokes both kinds of callback.  With a thread        *)
(* callback registered the wake enters it only if it was not entered since *)
(* the last Start command, only that command lets it be entered again, and *)
(* the process callback is not invoked; with a process callback registered *)
(* the wake invokes it exactly once, with the period size cycle_run        *)
(* observed, after the AWAKE step and before the signalling of the same    *)
(* cycle.  The two callbacks are never set together.                       *)
C12_RunCallback ==
  [][/\ ~({"process", "thread"} \subseteq rt'.callbacks)
     /\ rt.thread_entered /\ ~rt'.thread_entered
          => rt_last'.op = "client_node_command"
     /\ IsWake /\ ~rt.freed =>
          /\ "thread" \in rt.callbacks =>
               /\ EventsIn(rt_last'.log, CycleHooks) = {}
               /\ Cardinality(EventsIn(rt_last'.log, {"thread"})) <= 1
               /\ EventsIn(rt_last'.log, {"thread"}) # {} => ~rt.thread_entered
          /\ "thread" \notin rt.callbacks =>
               /\ EventsIn(rt_last'.log, {"thread"}) = {}
               /\ "process" \in rt.callbacks => ProcessOnceInCycle]_vars

\* the hook named h ran in the wake just taken exactly when the value the
\* cycle read differs from old, once and with the value read
NotifiedOnChange(h, old, new) ==
  LET log == rt_last'.log
      calls == EventsIn(log, {h})
  IN /\ Cardinality(calls) = IF new # old /\ h \in rt.callbacks THEN 1 ELSE 0
     /\ \A k \in calls : log[k].arg = new

(* C13: in every cycle that reads the position the buffer-size hook, when  *)
(* registered, is invoked exactly once with the new value if the period    *)
(* size read differs from the one observed before, and is not invoked if   *)
(* it is the same; likewise the sample-rate hook.  A cycle that reads no   *)
(* position invokes neither.                                               *)
C13_ChangeHooks ==
  [][RunsCycle =>
       IF EventsIn(rt_last'.log, {"AWAKE"}) # {}
         THEN /\ NotifiedOnChange("bufsize", rt.buffer_frames, rt'.buffer_frames)
              /\ NotifiedOnChange("srate", rt.sample_rate, rt'.sample_rate)
         ELSE /\ EventsIn(rt_last'.log, {"bufsize", "srate"}) = {}
              /\ rt'.buffer_frames = rt.buffer_frames
              /\ rt'.sample_rate = rt.sample_rate]_vars

\* a second cycle read the same period size and another sample rate: only
\* the sample-rate hook ran, after the first cycle had run both
C13_Witness ==
  /\ rt_last.op = "on_rtsocket_condition"
  /\ {"bufsize", "srate"} \subseteq rt.callbacks
  /\ rt.fault = "none"
  /\ rt.buffer_frames = 256
  /\ EventsIn(rt_last.log, {"AWAKE"}) # {}
  /\ EventsIn(rt_last.log, {"bufsize"}) = {}
  /\ \E k \in DOMAIN rt_last.log : rt_last.log[k] = Event("srate", 48000)

\* the number of times the step just taken invoked the shutdown hook
ShutdownCalls == Cardinality(EventsIn(rt_last'.log, {"shutdown"}))

(* C14: the loss of the connection, reported as the error or the           *)
(* unconnected state of the remote, invokes the registered shutdown hook   *)
(* exactly once: when a connected remote reports the loss, and not again   *)
(* for a remote that has reported it.  jack_client_close never invokes it. *)
C14_ShutdownOnce ==
  [][rt_calls' # rt_calls =>
       /\ rt_last'.op = "on_state_changed" =>
            ShutdownCalls = IF /\ rt.state = PW_REMOTE_STATE_CONNECTED
                               /\ "shutdown" \in rt.callbacks
                              THEN 1 ELSE 0
       /\ rt_last'.op = "jack_client_close" => ShutdownCalls = 0]_vars

\* the engine is quiet since jack_deactivate returned 0: the wake just
\* taken ran no process, thread or timebase callback
QuietAfterDeactivate ==
  rt_quiet' /\ rt_last'.op = "on_rtsocket_condition"
    => EventsIn(rt_last'.log, {"process", "thread", "timebase"}) = {}

\* jack_activate of an active client and jack_deactivate of an inactive
\* one return 0 and change nothing
NoOpWhenInState ==
  /\ rt_last'.op = "jack_activate" /\ rt.active
       => rt_last'.res = "0" /\ rt' = rt
  /\ rt_last'.op = "jack_deactivate" /\ ~rt.active
       => rt_last'.res = "0" /\ rt' = rt

(* C15: jack_deactivate does not return 0 before the data loop has         *)
(* stopped, and after it returned 0 no wake invokes the process, thread or *)
(* timebase callback until jack_activate is called again; jack_activate on *)
(* an active client and jack_deactivate on an inactive one are no-ops that *)
(* return 0.                                                               *)
C15_DeactivateRendezvous ==
  [][rt_calls' # rt_calls =>
       /\ rt_last'.op = "jack_deactivate" /\ rt_last'.res = "0" => ~rt'.loop
       /\ QuietAfterDeactivate
       /\ NoOpWhenInState]_vars

\* this step is a wake whose read failed with EWOULDBLOCK
WouldBlock ==
  /\ RunsCycle
  /\ \E k \in DOMAIN rt_last'.log : rt_last'.log[k] = Event("read failed", 1)

(* C19: a wake whose read fails with EWOULDBLOCK is a no-op: the status of *)
(* the activation, the observed period size and sample rate and the        *)
(* transport state are unchanged, no hook of the application runs, nothing *)
(* is signalled and no pending counter of a link is decremented.           *)
C19_WouldBlock ==
  [][WouldBlock =>
       /\ rt'.status = rt.status
       /\ rt'.buffer_frames = rt.buffer_frames
       /\ rt'.sample_rate = rt.sample_rate
       /\ rt'.jack_state = rt.jack_state
       /\ EventsIn(rt_last'.log, CycleHooks \cup {"FINISHED", "dec"}) = {}
       /\ rt'.links = rt.links]_vars

(* C20: a cycle never reads or writes through a missing position, a        *)
(* missing activation record of the client or a missing activation record  *)
(* of the driver: no wake ends in such an access, also when the position   *)
(* is set while the driver has no link or its link was removed.            *)
C20_MissingRecords ==
  rt.fault \notin {"cycle_run: no activation record",
                   "signal_sync: no activation record",
                   "position_to_jack: no driver activation",
                   "position_to_jack: driver activation unmapped"}

\* the fields of a jack_position_t other than its two markers
PositionFields(d) == [d EXCEPT !.unique_1 = 0, !.unique_2 = 0]

\* two calls in a row completed on the same activation record
SameRecordTwice(i) ==
  /\ i \in 1..(Len(jp_done) - 1)
  /\ jp_done[i].a = jp_done[i + 1].a

(* C17 as stated: two position_to_jack calls in a row on one activation    *)
(* record, with no clock advance and no other write in between, leave      *)
(* identical fields in the jack_position_t.                                *)
C17_Idempotent ==
  \A i \in DOMAIN jp_done :
    SameRecordTwice(i) => jp_done[i + 1].d = jp_done[i].d

(* C17 amended: two position_to_jack calls in a row on one activation      *)
(* record leave identical fields in the jack_position_t except unique_1    *)
(* and unique_2, which the second call leaves one greater.                 *)
C17_IdempotentButMarkers ==
  \A i \in DOMAIN jp_done :
    SameRecordTwice(i) =>
      /\ PositionFields(jp_done[i + 1].d) = PositionFields(jp_done[i].d)
      /\ jp_done[i + 1].d.unique_1 = jp_done[i].d.unique_1 + 1
      /\ jp_done[i + 1].d.unique_2 = jp_done[i].d.unique_2 + 1

\* two calls in a row were made on a record with an owned segment and a
\* valid bar, one period after the start
C17_Witness ==
  /\ jp_pc = 0
  /\ SameRecordTwice(1)
  /\ jp_done[2].a = PositionRecord(960, 1, TRUE)
  /\ jp_done[2].d.frame = 960 /\ jp_done[2].d.bar = 2

\* the order of the writes of a call: the first marker is one greater from
\* the first write on, no other field is written before it, the second
\* marker is written last and alone, and the call leaves what
\* position_to_jack computes from the record it was given
MarkersBracketWrite ==
  /\ jp_pc >= 1 =>
       /\ jp.unique_1 = jp_start.unique_1 + 1
       /\ jp.unique_2 = jp_start.unique_2
  /\ jp_pc = 1 => PositionFields(jp) = PositionFields(jp_start)
  /\ jp_pc = 0 /\ jp_done # <<>> =>
       /\ jp.unique_2 = jp.unique_1
       /\ jp = position_to_jack(jp_a, jp_start).d

\* the reader has finished a read in which the fields it read were stored
\* by two different writes
TornRead == rdr.pc = "done" /\ rdr.clock # rdr.bbt

(* C18 as stated: every call increments the first marker before it writes  *)
(* a field and sets the second marker to the first after the last field;   *)
(* the markers are equal exactly when no write is in progress; a reader    *)
(* that sees equal markers before and after its read has read fields that  *)
(* all come from one call.                                                 *)
C18_Markers ==
  /\ MarkersBracketWrite
  /\ (jp.unique_1 = jp.unique_2) <=> (jp_pc = 0)
  /\ /\ rdr.pc = "done"
     /\ rdr.before[1] = rdr.before[2]
     /\ rdr.after[1] = rdr.after[2]
     => ~TornRead

(* C18 amended: every call increments the first marker before it writes a  *)
(* field and sets the second marker to the first after the last field.     *)
(* For a record whose markers were equal when it was first handed to       *)
(* position_to_jack or cleared, the markers are equal exactly when no      *)
(* write is in progress, and a reader that sees both markers at one and    *)
(* the same value before and after its read, with no clear of the record   *)
(* in between, has read fields that all come from one call.                *)
C18_MarkersSameValue ==
  /\ MarkersBracketWrite
  /\ jp_zeroed => ((jp.unique_1 = jp.unique_2) <=> (jp_pc = 0))
  /\ /\ rdr.pc = "done"
     /\ rdr.zeroed
     /\ rdr.clears = 0
     /\ rdr.before[1] = rdr.before[2]
     /\ rdr.after = rdr.before
     => ~TornRead

\* a reader finished a read around which the markers kept one value, after
\* a call had been completed and while the next one waited
C18_Witness ==
  /\ jp_pc = 0 /\ jp_done # <<>>
  /\ rdr.pc = "done" /\ rdr.zeroed /\ rdr.clears = 0
  /\ rdr.before = <<1, 1>> /\ rdr.after = <<1, 1>>
  /\ rdr.clock = 1 /\ rdr.bbt = 1

\* the usable sources of port p: the mixes with an io area and a buffer id
\* below their number of buffers
Usable(p) ==
  {i \in DOMAIN p.mix : p.mix[i].io /\ p.mix[i].buffer_id < p.mix[i].n_buffers}

RECURSIVE SumOfSources(_, _, _)
\* the sum of sample j of the sources S of port p
SumOfSources(p, S, j) ==
  IF S = {} THEN 0
  ELSE LET i == CHOOSE x \in S : TRUE
       IN p.mix[i].data[j] + SumOfSources(p, S \ {i}, j)

\* the step just taken is a jack_port_get_buffer that returned what the
\* sources U of the port call for
ReturnsMixOf(U) ==
  /\ au_last'.fault = "none"
  /\ Cardinality(U) = 1 =>
       \E i \in U : /\ au_last'.ptr = i
                    /\ au_last'.out = au.mix[i].data
                    /\ au'.emptyptr = au.emptyptr
  /\ Cardinality(U) >= 2 =>
       /\ au_last'.ptr = EMPTYPTR
       /\ \A j \in 1..au_last'.frames : au_last'.out[j] = SumOfSources(au, U, j)
  /\ Cardinality(U) = 0 =>
       /\ au_last'.ptr = EMPTYPTR
       /\ au_last'.out = Silence

(* C16: jack_port_get_buffer on an audio input port with k usable sources  *)
(* returns, for k = 1, the buffer of the source itself and copies nothing; *)
(* for k >= 2, the fallback buffer of the port holding at every index      *)
(* below the period size the sum of the samples of the k sources; for      *)
(* k = 0, the fallback buffer holding zeros, also after an earlier cycle   *)
(* mixed into it.                                                          *)
C16_InputMix ==
  [][au_calls' # au_calls /\ au_last'.op = "jack_port_get_buffer"
       => ReturnsMixOf(Usable(au))]_vars

(***************************************************************************)
(* The timebase hook of a cycle.                                           *)
(***************************************************************************)
\* the places of the timebase hook in the log of the step just taken
TimebaseCalls == EventsIn(rt_last'.log, {"timebase"})
\* the wake just taken found the node id of the client in the segment-owner
\* slot of the driver, and the client has a timebase hook
OwnsSegment ==
  /\ "timebase" \in rt.callbacks
  /\ rt.driver_activation \in MappedActivations(rt)
  /\ rt_in'.a.segment_owner = rt.node_id
\* every call of the timebase hook in the step just taken got the pending
\* flag as new_pos, the flag is clear afterwards, and the bar the hook
\* produced follows as the write of jack_to_position, before FINISHED
HookThenSegment ==
  LET log == rt_last'.log
  IN \A k \in TimebaseCalls :
       /\ log[k].arg = (IF rt.pending_new_pos THEN 1 ELSE 0)
       /\ ~rt'.pending_new_pos
       /\ k < Len(log)
       /\ IF rt_in'.bbt
            THEN /\ log[k + 1] = Event("bar.beat", (4 + 2) * TicksPerBeat + 4)
                 /\ k + 1 < Len(log) /\ log[k + 2].ev = "FINISHED"
            ELSE log[k + 1].ev = "FINISHED"

AssignedLinks(u) ==
  {k \in DOMAIN sg_up[u].links : sg_up[u].links[k].activation # NULLPTR}
\* the places of the log of client u with the event ev
SignalEvents(u, ev) == {i \in DOMAIN sg_up[u].log : sg_up[u].log[i].ev = ev}
\* the links client u has subtracted from so far
Decremented(u) == {sg_up[u].log[i].k : i \in SignalEvents(u, "dec")}
\* client u is through signal_sync
SignalDone(u) == sg_up[u].pc = Len(sg_up[u].links) + 1
\* the subtractions made so far on the counter of node d
DecrementsOf(d) ==
  LET RECURSIVE sum(_)
      sum(U) == IF U = {} THEN 0
                ELSE LET u == CHOOSE v \in U : TRUE
                     IN Cardinality({i \in SignalEvents(u, "dec") :
                                       sg_up[u].links[sg_up[u].log[i].k].activation = d})
                        + sum(U \ {u})
  IN sum(Upstream)

(* C22: signal_sync marks the activation of the client FINISHED before it  *)
(* touches a link; it subtracts exactly one from the pending counter of    *)
(* every link that has an activation record, in the order of the array,    *)
(* and skips the links without one; it marks the node behind a link        *)
(* TRIGGERED and writes the wake value exactly when that subtraction       *)
(* brought the counter to zero; a failed write does not stop the loop.     *)
C22_SignalSync ==
  /\ \A u \in Upstream :
       LET up == sg_up[u]
           log == up.log
       IN /\ up.pc = 0 <=> log = <<>>
          /\ log # <<>> => /\ log[1].ev = "FINISHED"
                           /\ up.status = PW_NODE_ACTIVATION_FINISHED
                           /\ SignalEvents(u, "FINISHED") = {1}
          /\ Decremented(u) = {k \in AssignedLinks(u) :
                                 k < up.pc \/ (k = up.pc /\ up.zero)}
          /\ Cardinality(SignalEvents(u, "dec")) = Cardinality(Decremented(u))
          /\ SignalDone(u) => Decremented(u) = AssignedLinks(u)
          /\ \A i \in SignalEvents(u, "dec") :
               \A j \in SignalEvents(u, "dec") : i < j => log[i].k < log[j].k
          /\ \A i \in SignalEvents(u, "dec") :
               IF log[i].arg = 0
                 THEN \/ i = Len(log) /\ up.zero /\ up.pc = log[i].k
                      \/ /\ i + 2 <= Len(log)
                         /\ log[i + 1] = SignalEvent("TRIGGERED", log[i].k, 0)
                         /\ log[i + 2].ev = "write" /\ log[i + 2].k = log[i].k
                 ELSE i < Len(log) => log[i + 1].ev = "dec"
          /\ \A i \in SignalEvents(u, "TRIGGERED") \cup SignalEvents(u, "write") :
               i > 1 /\ log[i - 1].ev \in {"dec", "TRIGGERED"}
  /\ \A d \in Downstream :
       /\ sg_act[d].pending = sg_act[d].required - DecrementsOf(d)
       /\ sg_act[d].status = PW_NODE_ACTIVATION_TRIGGERED <=> sg_act[d].triggers > 0

\* a client is through signal_sync: the write on its first link failed,
\* its second link was subtracted from and did not reach zero
C22_Witness ==
  \E u \in Upstream :
    /\ SignalDone(u)
    /\ sg_up[u].log = <<SignalEvent("FINISHED", 0, 0), SignalEvent("dec", 1, 0),
                        SignalEvent("TRIGGERED", 1, 0), SignalEvent("write", 1, 0),
                        SignalEvent("dec", 2, 1)>>

\* a client is through signal_sync and skipped a cleared link before a
\* link it subtracted from
C22_WitnessSkip ==
  \E u \in Upstream :
    /\ SignalDone(u)
    /\ sg_up[u].links[1].activation = NULLPTR
    /\ Decremented(u) = {2}

\* the clients with a link to node d
UpstreamOf(d) ==
  {u \in Upstream : \E k \in AssignedLinks(u) : sg_up[u].links[k].activation = d}
\* the period of node d starts with its counter at the number of its
\* upstream clients, and each of them has one link to it
CountsUpstream(d) ==
  /\ UpstreamOf(d) # {}
  /\ sg_act[d].required = Cardinality(UpstreamOf(d))
  /\ \A u \in UpstreamOf(d) :
       Cardinality({k \in AssignedLinks(u) : sg_up[u].links[k].activation = d}) = 1
\* the clients whose subtraction on a link to node d returned zero
ReachedZero(d) ==
  {u \in Upstream : \E i \in SignalEvents(u, "dec") :
     /\ sg_up[u].log[i].arg = 0
     /\ sg_up[u].links[sg_up[u].log[i].k].activation = d}
\* the wake values the clients wrote for node d, failed writes included
WakeWrites(d) ==
  {<<u, i>> \in Upstream \X (1..(3 * MaxLinks + 1)) :
     /\ i \in SignalEvents(u, "write")
     /\ sg_up[u].links[sg_up[u].log[i].k].activation = d}

(* C23: when the pending counter of a node starts at R and each of its R   *)
(* upstream clients runs signal_sync once, then under every interleaving   *)
(* of the subtractions the node is marked TRIGGERED once and the wake      *)
(* value is written for it once, by the client whose subtraction reached   *)
(* zero, and not before all R clients have marked themselves FINISHED.     *)
C23_TriggeredOnce ==
  \A d \in Downstream :
    CountsUpstream(d) =>
      /\ sg_act[d].triggers <= 1
      /\ Cardinality(WakeWrites(d)) <= 1
      /\ Cardinality(ReachedZero(d)) <= 1
      /\ sg_act[d].triggers = 1 =>
           /\ UpstreamOf(d) \subseteq sg_act[d].finished
           /\ sg_act[d].by = ReachedZero(d)
           /\ Cardinality(WakeWrites(d)) = 1
           /\ \A w \in WakeWrites(d) : w[1] \in sg_act[d].by
           /\ sg_act[d].pending = 0
      /\ (\A u \in UpstreamOf(d) : SignalDone(u)) =>
           /\ sg_act[d].triggers = 1
           /\ sg_act[d].status = PW_NODE_ACTIVATION_TRIGGERED

\* a node with two upstream clients was triggered by the second client,
\* after the first client was through its signal_sync
C23_Witness ==
  \E d \in Downstream :
    /\ CountsUpstream(d)
    /\ UpstreamOf(d) = Upstream
    /\ sg_act[d].triggers = 1 /\ sg_act[d].wakes = 1
    /\ sg_act[d].by = {2}
    /\ \A u \in Upstream : SignalDone(u)

(***************************************************************************)
(* The buffers of a mix.                                                   *)
(***************************************************************************)
\* the times buffer i is on the queue of the mix
OnQueue(i) == Cardinality({k \in DOMAIN bq.queue : bq.queue[k] = i})

(* C24: each of the n_buffers buffers of the mix is in one of two states:  *)
(* it has BUFFER_FLAG_OUT and is not on the queue, or it is on the queue   *)
(* exactly once and has not the flag; after any sequence of buffer         *)
(* assignments, clear_buffers, dequeue_buffer, reuse_buffer and            *)
(* get_buffer_output.                                                      *)
C24_BufferStates ==
  \A i \in BufferIds :
    i < bq.n_buffers =>
      \/ bq.buffers[i].out /\ OnQueue(i) = 0
      \/ ~bq.buffers[i].out /\ OnQueue(i) = 1

\* the step just taken is the call op on the mix
BqCall(op) == bq_calls' # bq_calls /\ bq_last'.op = op

(* C25: the queue is first in, first out.  dequeue_buffer takes the head   *)
(* and gives it BUFFER_FLAG_OUT, or gives none on an empty queue;          *)
(* reuse_buffer of a buffer with the flag clears it and appends the buffer *)
(* to the tail once, reuse_buffer of a buffer without the flag changes     *)
(* nothing.  So get_buffer_output on a mix with n assigned buffers hands   *)
(* out the ids 0 .. n-1 in turn and never reports to be out of buffers.    *)
C25_Recycling ==
  [][/\ BqCall("dequeue_buffer") =>
          IF bq.queue = <<>>
            THEN bq_last'.id = NOBUFFER /\ bq' = bq
            ELSE /\ bq_last'.id = Head(bq.queue)
                 /\ bq' = [bq EXCEPT !.queue = Tail(@),
                                     !.buffers[Head(bq.queue)].out = TRUE]
     /\ BqCall("reuse_buffer") =>
          IF bq.buffers[bq_last'.id].out
            THEN bq' = [bq EXCEPT !.queue = Append(@, bq_last'.id),
                                  !.buffers[bq_last'.id].out = FALSE]
            ELSE bq' = bq
     /\ BqCall("get_buffer_output") /\ bq.n_buffers > 0 /\ ~bq_handed.broken =>
          /\ ~bq_last'.warn
          /\ bq_last'.id = Len(bq_handed.ids) % bq.n_buffers]_vars

(* C27: a buffer assignment in which a mapping fails fails as a whole: the *)
(* call returns a negative error and reports it upstream, and the mix is   *)
(* left without buffers, n_buffers 0 and the queue empty, the buffers it   *)
(* had before being cleared first.                                         *)
C27_MappingFailure ==
  [][BqCall("use_buffers") /\ bq_last'.arg \in {1, 2} =>
       /\ bq_last'.res # "0"
       /\ bq_last'.reported
       /\ bq'.n_buffers = 0
       /\ bq'.queue = <<>>
       /\ \A i \in BufferIds : i < bq.n_buffers => bq'.buffers[i].n_mem = 0]_vars

(***************************************************************************)
(* The mix pool.                                                           *)
(***************************************************************************)
\* the mix slots a walk along the next pointers of L meets from the list
\* head on, until it is back at the head, leaves the mixes or has taken
\* WalkLimit steps
MixesOn(L, head) ==
  LET RECURSIVE walk(_, _, _)
      walk(n, seen, steps) ==
        IF n = head \/ n \notin MixSlots \/ steps > WalkLimit THEN seen
        ELSE walk(L[n].next, seen \cup {n}, steps + 1)
  IN walk(L[head].next, {}, 0)
\* the mixes on c->free_mix
FreeMixesOf(c) == MixesOn(c.link, FreeMixHead)
FreeMixes == FreeMixesOf(client)
\* the port slots that are valid
ValidPorts == {q \in Directions \X PortIds : client.port_pool[q[1]][q[2]].valid}
\* the port slots whose list of mixes was initialised
ListedPortsOf(c) ==
  {q \in Directions \X PortIds : c.port_link[PortMixHead(q[1], q[2])].next # NULLPTR}
ListedPorts == ListedPortsOf(client)
\* the mixes on the list of port slot q
PortMixesOf(c, q) == MixesOn(c.port_link, PortMixHead(q[1], q[2]))
PortMixes(q) == PortMixesOf(client, q)

(* C30: every slot of the mix pool is in exactly one place: on the list of *)
(* free mixes, or on the list of mixes of exactly one valid port.  A slot  *)
(* on the list of a port cannot be reached from the list of free mixes,    *)
(* and no slot is lost.                                                    *)
C30_MixPartition ==
  ~client.fault =>
    \A m \in MixSlots :
      (IF m \in FreeMixes THEN 1 ELSE 0)
        + Cardinality({q \in ValidPorts : m \in PortMixes(q)}) = 1

\* the step just taken called ensure_mix for a port slot whose list of
\* mixes was initialised: client_node_port_set_io, or
\* client_node_port_use_buffers on a valid port
CallsEnsureMix ==
  /\ pool_calls' # pool_calls
  /\ pool_last'.op \in {"port_set_io", "port_use_buffers"}
  /\ pool_last'.ret # "-EINVAL"
  /\ <<pool_last'.direction, pool_last'.port>> \in ListedPorts
\* the mixes with the connection id mix_id on the list of port slot q
MixesWithId(q, mix_id) == {m \in PortMixes(q) : client.mix_pool[m].id = mix_id}

(* C26: ensure_mix returns the mix the list of the port has for the        *)
(* connection id, and then takes no slot from the pool; else it takes a    *)
(* free slot from the pool and puts it on the list of the port; it returns *)
(* none exactly when the list has no such mix and the pool is empty.  The  *)
(* list of a port never holds two mixes with the same connection id.       *)
C26_EnsureMix ==
  [][CallsEnsureMix =>
       LET q == <<pool_last'.direction, pool_last'.port>>
           had == MixesWithId(q, pool_last'.mix_id)
           mix == pool_last'.mix
       IN /\ ~client'.fault
          /\ Cardinality(had) <= 1
          /\ had # {} => /\ had = {mix}
                         /\ client'.link = client.link
                         /\ client'.port_link = client.port_link
          /\ (mix = 0) <=> (had = {} /\ FreeMixes = {})
          /\ had = {} /\ mix # 0 =>
               /\ mix \in FreeMixes
               /\ FreeMixesOf(client') = FreeMixes \ {mix}
               /\ PortMixesOf(client', q) = PortMixes(q) \cup {mix}
               /\ client'.mix_pool[mix].id = pool_last'.mix_id
          /\ \A r \in ListedPortsOf(client') : \A m1, m2 \in PortMixesOf(client', r) :
               client'.mix_pool[m1].id = client'.mix_pool[m2].id => m1 = m2]_vars


\* a registry add event that was dropped
DroppedAdd == rg_last'.op = "global" /\ rg_last'.dropped

\* the map of c covers the id and holds no object for it, and a remove of
\* the id changes nothing and invokes no hook
SlotReserved(c, id) ==
  /\ pw_map_get_size(c.globals) > id
  /\ pw_map_lookup(c.globals, id) = 0
  /\ registry_event_global_remove(c, id).c = c
  /\ registry_event_global_remove(c, id).log = <<>>

\* C29: a registry add event that is dropped (a port of an unknown type,
\* without node id or port name or with an unknown owning node, a link
\* without an endpoint) invokes no hook and still reserves its slot:
\* afterwards the map covers the id, lookup of the id returns none and a
\* remove of the id is a no-op.
C29_DroppedAdd ==
  [][DroppedAdd => rg_last'.log = <<>> /\ SlotReserved(rg', rg_last'.id)]_vars


\* C28: every change of the object lists, the port pool and the mix pool
\* happens while the thread-loop lock is held: a thread inside a call that
\* allocates, frees or relinks a port, a mix or an object owns the lock, so
\* no two threads are inside such calls at once.
C28_LockHeld ==
  /\ \A t \in lk.mut : lk.owner = t
  /\ Cardinality(lk.mut) <= 1


\* the stored events whose payload is in the heap, by index
HeapEvents(mb) ==
  {i \in 0..mb.event_count - 1 : EventSize(mb, i) > MIDI_INLINE_MAX}

\* the offsets of the bytes of the payload of events[i]
PayloadOffsets(mb, i) ==
  {o \in -1..mb.buffer_size + MIDI_INLINE_MAX :
     o >= midi_event_data(mb, i) /\ o < midi_event_data(mb, i) + EventSize(mb, i)}

\* the offsets of struct midi_buffer and of the headers of the stored events
HeaderOffsets(mb) == 0..EventOffset(mb.event_count) - 1

\* C34: after any sequence of successful reservations every heap payload
\* lies wholly inside the buffer, no heap payload overlaps another payload,
\* and no heap payload overlaps the buffer header or the array of event
\* headers, the header of the event just reserved included; also when a
\* reservation exactly fills the remaining capacity.
C34_MidiLayout ==
  LET mb == port_buffer IN
  \A i \in HeapEvents(mb) :
    /\ midi_event_data(mb, i) >= 0
    /\ midi_event_data(mb, i) + EventSize(mb, i) <= mb.buffer_size
    /\ PayloadOffsets(mb, i) \cap HeaderOffsets(mb) = {}
    /\ \A j \in HeapEvents(mb) \ {i} :
         PayloadOffsets(mb, i) \cap PayloadOffsets(mb, j) = {}


\* the links of c that hold a mapped activation record of a node
LiveLinks(c) ==
  {k \in DOMAIN c.links :
     c.links[k].node_id # SPA_ID_INVALID /\ c.links[k].activation # NULLPTR}

\* C32: after any sequence of transport, position-IO and activation
\* assign/remove events, the driver activation the real-time thread reads is
\* absent or is the activation of a live link whose node id is the driver
\* id of the position; it never refers to an activation whose link was
\* cleared or whose memory was unmapped.
C32_DriverActivation ==
  \/ rt.driver_activation = NULLPTR
  \/ /\ rt.position
     /\ \E k \in LiveLinks(rt) :
          /\ rt.links[k].activation = rt.driver_activation
          /\ rt.links[k].node_id = rt.driver_id


\* the live links of c to node n
LinksTo(c, n) == {k \in LiveLinks(c) : c.links[k].node_id = n}

\* C33: for every sequence of activation-assignment events the link array
\* holds at most one live link per node id, so that one signal_sync
\* decrements each pending counter at most once; removing the activation of
\* a node leaves no live link to it, and removing an activation that is not
\* assigned returns an error and changes nothing (the nodes are those other
\* than the client's own, whose events the handler skips).
C33_OneLinkPerNode ==
  /\ \A n \in NodeIds : Cardinality(LinksTo(rt, n)) <= 1
  /\ \A n \in NodeIds \ {rt.node_id} :
       LET r == client_node_set_activation(rt, n, FALSE, TRUE, 1)
       IN IF LinksTo(rt, n) # {}
            THEN LinksTo(r, n) = {}
            ELSE r = rt /\ set_activation_res(rt, n, FALSE, TRUE) # "0"


\* the thread is in do_sync
InDoSync == sy.pc # "idle"

\* the reply of the awaited request has arrived, or the connection is lost
ReplyOrLost ==
  \/ sy.last_sync = sy.seq
  \/ sy.state \in {PW_REMOTE_STATE_ERROR, PW_REMOTE_STATE_UNCONNECTED}

\* C35: a public call blocked in do_sync eventually returns once the reply
\* for the awaited sequence number has arrived or the connection has
\* entered the error state or the unconnected state; it never stays blocked
\* forever after the connection is lost.
C35_SyncReturns == (InDoSync /\ ReplyOrLost) ~> ~InDoSync


\* jack_port_register has just returned no port
RegisterFailed == pool_last'.op = "jack_port_register" /\ pool_last'.ret = 0

\* C36: a jack_port_register that returns no port (the port pool is
\* exhausted or the rendezvous with the server failed) consumes nothing: the
\* port pool, the mix pool and the object lists are as before the call.
C36_FailedRegister == [][RegisterFailed => client' = client]_vars


\* jack_set_timebase_callback of client c returns an error in this step
TimebaseFailed(c) ==
  /\ tb_last'.op = "set" /\ tb_last'.c = c /\ tb_last'.ret \notin {"0", "none"}
  /\ tb_pc'[c] = "idle"
  /\ tb_pc[c] \in {"try", "sync"} \/ tb_last' # tb_last

\* C37: a jack_set_timebase_callback that returns an error (no driver
\* activation, busy, or a failed rendezvous) changes no ownership: the
\* timebase hook of the caller is what it was when the call was entered,
\* and the caller is the segment owner only if it was on entry (the other
\* clients may have written the slot meanwhile, none writes the caller's id).
C37_FailedTimebase ==
  [][\A c \in Clients :
       TimebaseFailed(c) =>
         /\ timebase_callback'[c] = tb_entry'[c].hook
         /\ segment_owner' = c => tb_entry'[c].owner = c]_vars


\* the reposition segment of client c holds one whole request of c
RequestWritten(r, c) ==
  /\ r.reposition[c].flags = 0 /\ r.reposition[c].start = 0
  /\ r.reposition[c].duration = 0 /\ r.reposition[c].rate = 1
  /\ r.reposition[c].position \in r.asked[c]

\* the valid bits of a request that jack_transport_reposition accepts
ValidAccepted(valid) == valid \subseteq {JackPositionBBT, JackPositionTimecode}

\* the step is a return of jack_transport_reposition
RepositionReturned == rp_last' # rp_last

\* C38: under every interleaving of the repositions of the clients the owner
\* slot of the driver names a client whose reposition segment holds a whole
\* request of that client; a call without the driver's or the client's own
\* activation record returns -EIO, one with valid bits other than BBT and
\* Timecode returns -EINVAL, and neither writes a segment or the owner slot;
\* no step of a call changes the state of the transport.
C38_RepositionPublished ==
  [][/\ rp'.reposition_owner # 0 => RequestWritten(rp', rp'.reposition_owner)
     /\ rp'.state = rp.state
     /\ RepositionReturned =>
          LET c == rp_last'.c
              missing == ~rp.driver_activation[c] \/ ~rp.activation[c]
          IN /\ (rp_last'.ret = "-EIO") = missing
             /\ (rp_last'.ret = "-EINVAL") = (~missing /\ ~ValidAccepted(rp'.valid[c]))
             /\ (rp_last'.ret = "0") = (~missing /\ ValidAccepted(rp'.valid[c]))
             /\ rp_last'.ret # "0" =>
                  /\ rp'.reposition = rp.reposition
                  /\ rp'.reposition_owner = rp.reposition_owner]_vars

\* client 1 owns the request slot and is writing its next request, whose
\* frame is already in its segment, while client 2 is writing its own
C38_Witness ==
  /\ rp.reposition_owner = 1 /\ rp.pc[1] = 5 /\ rp.pc[2] \in 2..5
  /\ Cardinality(rp.asked[1]) = 2 /\ rp.reposition[1].position = rp.frame[1]
  /\ rp_last.ret \in {"-EIO", "-EINVAL"}


\* the buffers of the mix that are on its queue
Queued == {bq.queue[k] : k \in DOMAIN bq.queue}

(* C39: after any sequence of buffer assignments, successful, partly       *)
(* failing or failing, every buffer index below n_buffers of the mix is a  *)
(* buffer whose memory is mapped and whose id is its index, as the last    *)
(* assignment initialises it, and every buffer on the queue has an index   *)
(* below n_buffers.                                                        *)
C39_BufferSet ==
  /\ \A i \in BufferIds :
       i < bq.n_buffers => bq.buffers[i].n_mem > 0 /\ bq.buffers[i].id = i
  /\ \A i \in Queued : i < bq.n_buffers


(***************************************************************************)
(* The ports of the client and their announcements.                        *)
(***************************************************************************)
\* jack_port_by_id: the object the map has for the id if it is a port
jack_port_by_id(c, port_id) ==
  LET o == pw_map_lookup(c.globals, port_id)
  IN IF o = 0 \/ c.objects[o].type # PW_TYPE_INTERFACE_Port THEN 0 ELSE o

\* jack_port_is_mine
jack_port_is_mine(c, o) ==
  c.objects[o].type = PW_TYPE_INTERFACE_Port /\ c.objects[o].port_id # SPA_ID_INVALID

\* the objects of the valid ports of the client
LocalObjects(c) ==
  {c.port_pool[d][p].object : <<d, p>> \in {dp \in Directions \X PortIds :
                                             c.port_pool[dp[1]][dp[2]].valid}}

\* the step is the announcement of a registered port of the client
OwnAnnounced ==
  rg_calls' # rg_calls /\ rg_last'.op = "global" /\ "object" \in DOMAIN rg_last'

\* the step is the announcement of a port that is not a registered port
\* of the client, and it was not dropped
OtherAnnounced ==
  /\ rg_calls' # rg_calls /\ rg_last'.op = "global" /\ ~rg_last'.dropped
  /\ "object" \notin DOMAIN rg_last'
  /\ rg_last'.log = <<Event("portregistration", rg_last'.id)>>

\* C40: when the server announces a registered port of the client, no
\* object is created: the object jack_port_register returned gets the
\* global id and keeps its port index, and jack_port_by_id of that id and
\* find_port of its name both return it; a port that is not a registered
\* port of the client gets an object that no valid port of the client has
\* and that has no port index, so jack_port_is_mine is false for it.
C40_OwnPortAnnounced ==
  [][/\ OwnAnnounced =>
          LET o == rg_last'.object
          IN /\ Len(rg'.objects) = Len(rg.objects)
             /\ rg'.free_objects = rg.free_objects
             /\ rg'.objects[o].id = rg_last'.id
             /\ rg'.objects[o].port_id = rg.objects[o].port_id
             /\ jack_port_by_id(rg', rg_last'.id) = o
             /\ find_port(rg', rg.names[o]) = o
     /\ OtherAnnounced =>
          LET o == pw_map_lookup(rg'.globals, rg_last'.id)
          IN /\ o \notin LocalObjects(rg)
             /\ rg'.objects[o].port_id = SPA_ID_INVALID
             /\ ~jack_port_is_mine(rg', o)]_vars


\* the objects on the free list of the context
FreeObjects(c) == {c.free_objects[k] : k \in DOMAIN c.free_objects}

\* C31: the storage of an object is never shared between two live
\* entities: the object of a valid port of the client is not on the free
\* list, from which alloc_object hands out, and for every id that is
\* announced the map has an object that is not on the free list and whose
\* id and type are those announced.
C31_ObjectStorage ==
  /\ \A o \in LocalObjects(rg) : o \notin FreeObjects(rg)
  /\ \A id \in GlobalIds :
       rg_last.announced[id] # "" =>
         LET o == pw_map_lookup(rg.globals, id)
         IN /\ o # 0 /\ o \notin FreeObjects(rg)
            /\ rg.objects[o].id = id
            /\ rg.objects[o].type = rg_last.announced[id]

====
